---- MODULE Spec2Model ----
(***************************************************************************)
(* Capability registry, dispatcher and telemetry of the MCP tool server.   *)
(*                                                                         *)
(* One process runs one server variant: simple_server.py (a                *)
(* SimpleToolRegistry) or server_fixed.py (an MCPServer with the call      *)
(* handler of the mcp library).  Discovery instantiates every tool class   *)
(* of the handlers package once; an instance is identified by its class.   *)
(* Every handler is one atomic action.                                     *)
(***************************************************************************)
EXTENDS Integers, Sequences, FiniteSets, TLC

VARIABLES
    server,            \* which server variant this process runs
    tools,             \* SimpleToolRegistry.tools          (ordered dict)
    tool_schemas,      \* SimpleToolRegistry.tool_schemas   (ordered dict)
    registered_tools,  \* server_fixed MCPServer.registered_tools (ordered dict)
    call_handler,      \* the mcp Server's call_tool handler slot: <<>> or <<class>>
    call_count,        \* MCPTool.call_count   per instance
    last_called,       \* MCPTool.last_called  per instance
    errors,            \* MCPTool.errors       per instance
    access_token,      \* OutlookIntegrationTool.access_token
    clock,             \* the value the next datetime.now() returns
    op,                \* the operation that ran last
    request,           \* its input (name, kwargs) and the outside world it met (env)
    result,            \* what it returned to the caller
    tasks,             \* the execute coroutines suspended at an await, oldest first
    task_logs,         \* the log_call calls the resumed coroutines made, in order
    dashboard          \* web_dashboard's globals server_logs, tool_calls, server_stats

vars == <<server, tools, tool_schemas, registered_tools, call_handler,
          call_count, last_called, errors, access_token, clock,
          op, request, result, tasks, task_logs, dashboard>>

telemetry == <<call_count, last_called, errors>>

(***************************************************************************)
(* Bounds of the model.                                                    *)
(***************************************************************************)
\* Spec: a run stops invoking once this many log_call calls were made
MaxCalls == 2
\* SpecHistory: the same, in the runs that keep invoking one capability
MaxHistory == 4

(***************************************************************************)
(* Python values.                                                          *)
(***************************************************************************)
\* None of last_called / access_token; datetime values are >= 1
None == 0

\* dict.get(key, default)
Get(kw, key, default) == IF key \in DOMAIN kw THEN kw[key] ELSE default

\* An ordered dict is a sequence of [key, value] entries with unique keys.
Keys(d) == {d[i].key : i \in 1..Len(d)}
KeyList(d) == [i \in 1..Len(d) |-> d[i].key]
Lookup(d, k) == d[CHOOSE i \in 1..Len(d) : d[i].key = k].value
\* a dict whose assignment keeps the value a key already has
DictSet_FirstWins(d, k, v) ==
    IF k \in Keys(d) THEN d ELSE Append(d, [key |-> k, value |-> v])

\* d[k] = v : replaces the value in place, or appends a new entry
DictSet(d, k, v) ==
    IF k \in Keys(d)
    THEN [i \in 1..Len(d) |-> IF d[i].key = k THEN [key |-> k, value |-> v] ELSE d[i]]
    ELSE Append(d, [key |-> k, value |-> v])

\* seq[-n:]
LastN(s, n) == IF Len(s) <= n THEN s ELSE SubSeq(s, Len(s) - n + 1, Len(s))

\* The result envelope.
Failure(msg) == [success |-> FALSE, error |-> msg]
Success(payload) == [success |-> TRUE, payload |-> payload]

\* What running a coroutine did: the log_call calls it made, in order, and how
\* it ended: it returned a value or an exception left it.
Returned(logs, value) == [logs |-> logs, kind |-> "return", value |-> value]
Raised(logs, type, msg) ==
    [logs |-> logs, kind |-> "raise", value |-> [exception |-> type, message |-> msg]]
LogTrue == [success |-> TRUE, error |-> ""]
LogFalse(msg) == [success |-> FALSE, error |-> msg]

(***************************************************************************)
(* The handlers package: modules, tool classes, names, signatures, schemas.*)
(***************************************************************************)
\* pkgutil.iter_modules(handlers.__path__) without __init__ and base_tool
Modules == <<"data_tools", "file_tools", "office_tools", "outlook_integration", "slack_real">>

\* ModuleTypes of a package whose office_tools also imports CalculatorTool
ModuleTypes_Reimports(m) ==
    CASE m = "data_tools" -> <<"CalculatorTool", "JSONProcessorTool", "MCPTool">>
      [] m = "file_tools" -> <<"FileReaderTool", "FileWriterTool", "MCPTool", "Path">>
      [] m = "office_tools" -> <<"CalculatorTool", "CalendarTool", "EmailIntegrationTool",
                                 "MCPTool", "MIMEMultipart", "MIMEText",
                                 "MeetingSummarizerTool", "PowerPointTool",
                                 "SlackIntegrationTool", "datetime", "timedelta">>
      [] m = "outlook_integration" -> <<"MCPTool", "OutlookIntegrationTool", "datetime",
                                        "timedelta">>
      [] m = "slack_real" -> <<"MCPTool", "SlackRealTool">>

\* the names of dir(module) bound to a class, in dir()'s order (upper case
\* before lower case): the classes the module defines and the ones it imports
ModuleTypes(m) ==
    CASE m = "data_tools" -> <<"CalculatorTool", "JSONProcessorTool", "MCPTool">>
      [] m = "file_tools" -> <<"FileReaderTool", "FileWriterTool", "MCPTool", "Path">>
      [] m = "office_tools" -> <<"CalendarTool", "EmailIntegrationTool",
                                 "MCPTool", "MIMEMultipart", "MIMEText",
                                 "MeetingSummarizerTool", "PowerPointTool",
                                 "SlackIntegrationTool", "datetime", "timedelta">>
      [] m = "outlook_integration" -> <<"MCPTool", "OutlookIntegrationTool", "datetime",
                                        "timedelta">>
      [] m = "slack_real" -> <<"MCPTool", "SlackRealTool">>

\* attr.__bases__, by the class names
Bases(t) ==
    CASE t = "MCPTool" -> {"ABC"}
      [] t = "Path" -> {"PurePath"}
      [] t \in {"MIMEMultipart", "MIMEText"} -> {"MIMEBase", "MIMENonMultipart"}
      [] t = "datetime" -> {"date"}
      [] t = "timedelta" -> {"object"}
      [] OTHER -> {"MCPTool"}

\* any('MCPTool' in str(base) for base in attr.__bases__): of the bases
\* above only the class MCPTool has a str() that contains 'MCPTool'
InheritsMCPTool(t) == "MCPTool" \in Bases(t)

\* dir(module) filtered to the classes one of whose bases is MCPTool, in dir()'s
\* (alphabetical) order
ModuleClasses(m) == SelectSeq(ModuleTypes(m), InheritsMCPTool)

ToolClasses ==
    UNION {{ModuleClasses(Modules[i])[j] : j \in 1..Len(ModuleClasses(Modules[i]))} :
           i \in 1..Len(Modules)}

\* the name each class passes to MCPTool.__init__
ToolName(cls) ==
    CASE cls = "CalculatorTool" -> "calculator"
      [] cls = "JSONProcessorTool" -> "json_processor"
      [] cls = "FileReaderTool" -> "file_reader"
      [] cls = "FileWriterTool" -> "file_writer"
      [] cls = "MeetingSummarizerTool" -> "meeting_summarizer"
      [] cls = "EmailIntegrationTool" -> "email_integration"
      [] cls = "SlackIntegrationTool" -> "slack_integration"
      [] cls = "CalendarTool" -> "calendar_tool"
      [] cls = "PowerPointTool" -> "powerpoint_tool"
      [] cls = "OutlookIntegrationTool" -> "outlook_integration"
      [] cls = "SlackRealTool" -> "slack_real"

\* The signature of execute: positional parameters without a default, those
\* with one, and whether a **kwargs parameter takes the rest.
Signature(cls) ==
    CASE cls = "CalculatorTool" ->
            [required |-> {"expression"}, optional |-> {}, varkw |-> FALSE]
      [] cls = "JSONProcessorTool" ->
            [required |-> {"json_data", "operation"}, optional |-> {"key_path"},
             varkw |-> FALSE]
      [] cls = "FileReaderTool" ->
            [required |-> {"file_path"}, optional |-> {"max_lines"}, varkw |-> FALSE]
      [] cls = "FileWriterTool" ->
            [required |-> {"file_path", "content"}, optional |-> {"append"},
             varkw |-> FALSE]
      [] cls = "MeetingSummarizerTool" ->
            [required |-> {"meeting_content", "meeting_title"},
             optional |-> {"attendees", "format"}, varkw |-> FALSE]
      [] cls = "EmailIntegrationTool" ->
            [required |-> {"operation", "email_config"}, optional |-> {}, varkw |-> TRUE]
      [] cls = "SlackIntegrationTool" ->
            [required |-> {"operation", "token"}, optional |-> {}, varkw |-> TRUE]
      [] cls \in {"CalendarTool", "PowerPointTool", "OutlookIntegrationTool",
                  "SlackRealTool"} ->
            [required |-> {"operation"}, optional |-> {}, varkw |-> TRUE]

\* get_schema(): the declared properties, the required ones, and the enum of
\* each enum-typed property.
Schema(cls) ==
    CASE cls = "CalculatorTool" ->
            [properties |-> {"expression"}, required |-> {"expression"},
             enum |-> <<>>]
      [] cls = "JSONProcessorTool" ->
            [properties |-> {"json_data", "operation", "key_path"},
             required |-> {"json_data", "operation"},
             enum |-> [operation |-> {"validate", "format", "extract_keys", "count_items"}]]
      [] cls = "FileReaderTool" ->
            [properties |-> {"file_path", "max_lines"}, required |-> {"file_path"},
             enum |-> <<>>]
      [] cls = "FileWriterTool" ->
            [properties |-> {"file_path", "content", "append"},
             required |-> {"file_path", "content"}, enum |-> <<>>]
      [] cls = "MeetingSummarizerTool" ->
            [properties |-> {"meeting_content", "meeting_title", "attendees", "format"},
             required |-> {"meeting_content", "meeting_title"},
             enum |-> [format |-> {"structured", "bullet_points", "action_items",
                                   "executive"}]]
      [] cls = "EmailIntegrationTool" ->
            [properties |-> {"operation", "email_config", "to_email", "subject", "body",
                             "search_query", "limit"},
             required |-> {"operation", "email_config"},
             enum |-> [operation |-> {"read_recent", "send_email", "search_emails",
                                      "get_unread"}]]
      [] cls = "SlackIntegrationTool" ->
            [properties |-> {"operation", "token", "channel", "message", "query", "limit"},
             required |-> {"operation", "token"},
             enum |-> [operation |-> {"read_messages", "post_message", "get_channels",
                                      "search_messages"}]]
      [] cls = "CalendarTool" ->
            [properties |-> {"operation", "title", "start_time", "end_time", "attendees",
                             "description", "location"},
             required |-> {"operation"},
             enum |-> [operation |-> {"create_meeting", "check_availability",
                                      "list_events", "send_invite"}]]
      [] cls = "PowerPointTool" ->
            [properties |-> {"operation", "title", "content", "template", "file_path"},
             required |-> {"operation"},
             enum |-> [operation |-> {"create_presentation", "add_slide", "add_content",
                                      "save_presentation"},
                       template |-> {"blank", "title_slide", "content_slide",
                                     "two_column"}]]
      [] cls = "OutlookIntegrationTool" ->
            [properties |-> {"operation", "folder", "limit", "subject", "body", "to",
                             "title", "start_time", "end_time", "attendees",
                             "description", "days_ahead"},
             required |-> {"operation"},
             enum |-> [operation |-> {"read_emails", "send_email", "create_meeting",
                                      "get_calendar_events"}]]
      [] cls = "SlackRealTool" ->
            [properties |-> {"operation", "channel", "message", "username", "limit",
                             "file_path"},
             required |-> {"operation"},
             enum |-> [operation |-> {"post_message", "read_messages", "get_channels",
                                      "upload_file"}]]

\* Python's binding of execute(**kwargs) to the signature: a missing required
\* parameter, or a keyword the signature does not take, is a TypeError raised
\* before the body runs.
BindError(cls, kw) ==
    LET sig == Signature(cls) IN
    IF ~(sig.required \subseteq DOMAIN kw)
    THEN "execute() missing required positional argument"
    ELSE IF ~sig.varkw /\ ~(DOMAIN kw \subseteq sig.required \cup sig.optional)
    THEN "execute() got an unexpected keyword argument"
    ELSE ""

\* str(e) of the AttributeError of a call of a method the class does not define
NoAttribute(cls, method) ==
    "'" \o cls \o "' object has no attribute '" \o method \o "'"

(***************************************************************************)
(* Argument values.  Strings are strings; a value whose type matters is a  *)
(* tagged record.                                                          *)
(***************************************************************************)
PyNone == [type |-> "NoneType", items |-> <<>>]
PyList(items) == [type |-> "list", items |-> items]
\* len(v) raises TypeError for None
HasLen(v) == v.type = "list"
PyLen(v) == Len(v.items)
NoLen == "object of type 'NoneType' has no len()"

(***************************************************************************)
(* file_tools.py                                                           *)
(* env: "ok", "absent" (os.path.exists is false), "unreadable" (open or    *)
(* read raises), "vanished" (the file is removed after it was read, so     *)
(* os.path.getsize raises).                                                *)
(***************************************************************************)
FileReaderTool_execute(kw, env) ==
    IF env = "absent"
    THEN Returned(<<LogFalse("File not found: " \o kw.file_path)>>,
                  Failure("File not found: " \o kw.file_path))
    ELSE IF env = "unreadable"
    THEN LET error_msg == "Error reading file: [Errno 13] Permission denied" IN
         Returned(<<LogFalse(error_msg)>>, Failure(error_msg))
    ELSE IF env = "vanished"
    THEN \* log_call(True) has run when building the result raises
         LET error_msg == "Error reading file: [Errno 2] No such file or directory" IN
         Returned(<<LogTrue, LogFalse(error_msg)>>, Failure(error_msg))
    ELSE Returned(<<LogTrue>>, Success([content |-> "text", file |-> kw.file_path]))

\* env: "ok", "unwritable" (makedirs, open or write raises)
FileWriterTool_execute(kw, env) ==
    IF env = "unwritable"
    THEN LET error_msg == "Error writing file: [Errno 13] Permission denied" IN
         Returned(<<LogFalse(error_msg)>>, Failure(error_msg))
    ELSE Returned(<<LogTrue>>,
                  Success([message |-> "Successfully "
                                       \o (IF Get(kw, "append", "False") = "True"
                                           THEN "appended to " ELSE "wrote ")
                                       \o kw.file_path]))

(***************************************************************************)
(* data_tools.py                                                           *)
(***************************************************************************)
\* allowed_chars of CalculatorTool.execute
AllowedChars == {"0", "1", "2", "3", "4", "5", "6", "7", "8", "9",
                 "+", "-", "*", "/", "(", ")", ".", ",", " "}

\* The expressions of the model, each a sequence of characters.
ExprScenario == <<"(", "1", "0", " ", "+", " ", "5", ")", " ", "*", " ", "2">>
ExprImport == <<"i", "m", "p", "o", "r", "t", " ", "o", "s">>
ExprDivZero == <<"1", "/", "0">>

\* the value of an expression of the characters "1" and "+" that ends in
\* "1": the sum of its decimal numbers (a "+" before a number is a sign, a
\* "+" after one an addition); run is the value of the digits read last
RECURSIVE SumOfOnes(_, _)
SumOfOnes(expression, run) ==
    IF expression = <<>> THEN run
    ELSE IF Head(expression) = "1"
         THEN SumOfOnes(Tail(expression), 10 * run + 1)
         ELSE run + SumOfOnes(Tail(expression), 0)

\* Python's eval on the expressions of the model that pass the character check
PyEval(expression) ==
    CASE expression = ExprScenario -> [ok |-> TRUE, value |-> 30, message |-> ""]
      [] expression = ExprDivZero ->
            [ok |-> FALSE, value |-> 0, message |-> "division by zero"]
      [] /\ expression # <<>>
         /\ \A i \in 1..Len(expression) : expression[i] \in {"1", "+"}
         /\ expression[Len(expression)] = "1" ->
            [ok |-> TRUE, value |-> SumOfOnes(expression, 0), message |-> ""]
      [] OTHER -> [ok |-> FALSE, value |-> 0, message |-> "invalid syntax"]

\* execute that evaluates the expression before it looks at its characters
CalculatorTool_execute_EvalFirst(kw, env) ==
    LET expression == kw.expression
        r == PyEval(expression) IN
    IF ~r.ok
    THEN LET error_msg == "Calculation error: " \o r.message IN
         Returned(<<LogFalse(error_msg)>>, Failure(error_msg))
    ELSE IF ~(\A i \in 1..Len(expression) : expression[i] \in AllowedChars)
         THEN Returned(<<LogFalse("Invalid characters in expression")>>,
                       Failure("Expression contains invalid characters"))
         ELSE Returned(<<LogTrue>>, Success([expression |-> expression, result |-> r.value]))

CalculatorTool_execute(kw, env) ==
    LET expression == kw.expression IN
    IF ~(\A i \in 1..Len(expression) : expression[i] \in AllowedChars)
    THEN Returned(<<LogFalse("Invalid characters in expression")>>,
                  Failure("Expression contains invalid characters"))
    ELSE LET r == PyEval(expression) IN
         IF r.ok
         THEN Returned(<<LogTrue>>, Success([expression |-> expression, result |-> r.value]))
         ELSE LET error_msg == "Calculation error: " \o r.message IN
              Returned(<<LogFalse(error_msg)>>, Failure(error_msg))

\* json.loads on the JSON texts of the model: a record of three keys, and a
\* text that is not JSON
JsonRecord == "{\"a\": 1, \"b\": 2, \"c\": 3}"
\* the JSON text the dashboard sends: a record of two keys
DashboardJson == "{\"tools\": 9, \"status\": \"active\"}"
JsonLoads(json_data) ==
    IF json_data = JsonRecord
    THEN [ok |-> TRUE, type |-> "dictionary", count |-> 3, message |-> ""]
    ELSE IF json_data = DashboardJson
    THEN [ok |-> TRUE, type |-> "dictionary", count |-> 2, message |-> ""]
    ELSE [ok |-> FALSE, type |-> "", count |-> 0,
          message |-> "Expecting value: line 1 column 1 (char 0)"]

JSONProcessorTool_execute(kw, env) ==
    LET data == JsonLoads(kw.json_data)
        operation == kw.operation
        res == CASE operation = "validate" -> [valid |-> "JSON is valid"]
                 [] operation = "format" -> [formatted |-> kw.json_data]
                 [] operation = "extract_keys" -> [keys |-> <<"a", "b", "c">>]
                 [] operation = "count_items" -> [count |-> data.count, type |-> data.type]
                 [] OTHER -> [error |-> "Unknown operation: " \o operation]
    IN
    IF ~data.ok
    THEN LET error_msg == "Invalid JSON: " \o data.message IN
         Returned(<<LogFalse(error_msg)>>, Failure(error_msg))
    ELSE Returned(<<LogTrue>>, Success([operation |-> operation, result |-> res]))

(***************************************************************************)
(* office_tools.py                                                         *)
(***************************************************************************)
\* A format outside the four handled ones leaves the local `summary` unbound;
\* reading it raises UnboundLocalError inside the try.
MeetingSummarizerTool_execute(kw, env) ==
    LET format == Get(kw, "format", "structured") IN
    IF format \in {"structured", "bullet_points", "action_items", "executive"}
    THEN Returned(<<LogTrue>>,
                  Success([meeting_title |-> kw.meeting_title, format |-> format]))
    ELSE LET error_msg == "Summarization error: local variable 'summary' referenced before assignment" IN
         Returned(<<LogFalse(error_msg)>>, Failure(error_msg))

\* _search_emails and _get_unread_emails are not defined by the class.
EmailIntegrationTool_execute(kw, env) ==
    LET operation == kw.operation
        Missing(method) ==
            LET error_msg == "Email operation error: "
                             \o NoAttribute("EmailIntegrationTool", method) IN
            Returned(<<LogFalse(error_msg)>>, Failure(error_msg))
    IN
    CASE operation = "read_recent" ->
            Returned(<<LogTrue>>, Success([operation |-> "read_recent"]))
      [] operation = "send_email" ->
            Returned(<<LogTrue>>, Success([operation |-> "send_email"]))
      [] operation = "search_emails" -> Missing("_search_emails")
      [] operation = "get_unread" -> Missing("_get_unread_emails")
      [] OTHER -> Returned(<<>>, Failure("Unknown operation: " \o operation))

\* _get_channels and _search_messages are not defined by the class.
SlackIntegrationTool_execute(kw, env) ==
    LET operation == kw.operation
        Missing(method) ==
            LET error_msg == "Slack operation error: "
                             \o NoAttribute("SlackIntegrationTool", method) IN
            Returned(<<LogFalse(error_msg)>>, Failure(error_msg))
    IN
    CASE operation = "read_messages" ->
            Returned(<<LogTrue>>, Success([operation |-> "read_messages"]))
      [] operation = "post_message" ->
            Returned(<<LogTrue>>, Success([operation |-> "post_message"]))
      [] operation = "get_channels" -> Missing("_get_channels")
      [] operation = "search_messages" -> Missing("_search_messages")
      [] OTHER -> Returned(<<>>, Failure("Unknown operation: " \o operation))

\* _check_availability and _list_events are not defined by the class.
\* _send_invite logs the success and then takes len(attendees).
CalendarTool_execute(kw, env) ==
    LET operation == kw.operation
        Caught(logs, text) ==
            LET error_msg == "Calendar operation error: " \o text IN
            Returned(Append(logs, LogFalse(error_msg)), Failure(error_msg))
    IN
    CASE operation = "create_meeting" ->
            Returned(<<LogTrue>>, Success([operation |-> "create_meeting"]))
      [] operation = "send_invite" ->
            LET attendees == Get(kw, "attendees", PyList(<<>>)) IN
            IF HasLen(attendees)
            THEN Returned(<<LogTrue>>,
                          Success([operation |-> "send_invite",
                                   invites_sent |-> PyLen(attendees)]))
            ELSE Caught(<<LogTrue>>, NoLen)
      [] operation = "check_availability" ->
            Caught(<<>>, NoAttribute("CalendarTool", "_check_availability"))
      [] operation = "list_events" ->
            Caught(<<>>, NoAttribute("CalendarTool", "_list_events"))
      [] OTHER -> Returned(<<>>, Failure("Unknown operation: " \o operation))

\* _save_presentation is not defined by the class; "add_content" has no branch.
\* _add_slide logs the success and then takes len(content).
PowerPointTool_execute(kw, env) ==
    LET operation == kw.operation
        Caught(logs, text) ==
            LET error_msg == "PowerPoint operation error: " \o text IN
            Returned(Append(logs, LogFalse(error_msg)), Failure(error_msg))
    IN
    CASE operation = "create_presentation" ->
            Returned(<<LogTrue>>, Success([operation |-> "create_presentation"]))
      [] operation = "add_slide" ->
            LET content == Get(kw, "content", PyList(<<>>)) IN
            IF HasLen(content)
            THEN Returned(<<LogTrue>>,
                          Success([operation |-> "add_slide",
                                   content_items |-> PyLen(content)]))
            ELSE Caught(<<LogTrue>>, NoLen)
      [] operation = "save_presentation" ->
            Caught(<<>>, NoAttribute("PowerPointTool", "_save_presentation"))
      [] OTHER -> Returned(<<>>, Failure("Unknown operation: " \o operation))

(***************************************************************************)
(* slack_real.py                                                           *)
(* env: "ok", "api_error" (the response's ok is false), "absent" (the file *)
(* to upload does not exist).                                              *)
(***************************************************************************)
SlackRealTool_execute(kw, env) ==
    LET operation == kw.operation
        Api(name) ==
            IF env = "api_error"
            THEN LET error_msg == "Slack operation error: Slack API error: invalid_auth" IN
                 Returned(<<LogFalse(error_msg)>>, Failure(error_msg))
            ELSE Returned(<<LogTrue>>, Success([operation |-> name]))
    IN
    CASE operation \in {"post_message", "read_messages", "get_channels"} -> Api(operation)
      [] operation = "upload_file" ->
            IF "file_path" \notin DOMAIN kw \/ env = "absent"
            THEN Returned(<<>>, Failure("File not found"))
            ELSE Api("upload_file")
      [] OTHER -> Returned(<<>>, Failure("Unknown operation: " \o operation))

(***************************************************************************)
(* outlook_integration.py                                                  *)
(* env: "ok", "token_denied" (the token request does not answer 200),      *)
(* "http_error" (the Graph request does not answer its success status).    *)
(***************************************************************************)
\* the token _get_access_token leaves stored
OutlookToken(token, env) ==
    IF token # None THEN token
    ELSE IF env = "token_denied" THEN None
    ELSE 1

\* _get_calendar_events is not defined by the class.
OutlookIntegrationTool_execute(kw, env, token) ==
    LET operation == kw.operation
        Caught(text) ==
            LET error_msg == "Outlook operation error: " \o text IN
            Returned(<<LogFalse(error_msg)>>, Failure(error_msg))
        Graph(name, what) ==
            IF env = "http_error"
            THEN Caught("Failed to " \o what \o ": Service Unavailable")
            ELSE Returned(<<LogTrue>>, Success([operation |-> name]))
    IN
    IF OutlookToken(token, env) = None
    THEN Caught("Failed to get access token: invalid_client")
    ELSE CASE operation = "read_emails" -> Graph("read_emails", "read emails")
           [] operation = "send_email" -> Graph("send_email", "send email")
           [] operation = "create_meeting" -> Graph("create_meeting", "create meeting")
           [] operation = "get_calendar_events" ->
                 Caught(NoAttribute("OutlookIntegrationTool", "_get_calendar_events"))
           [] OTHER -> Returned(<<>>, Failure("Unknown operation: " \o operation))

\* the properties a schema declares with "type": "array"
SchemaArrays(cls) ==
    CASE cls \in {"MeetingSummarizerTool", "CalendarTool"} -> {"attendees"}
      [] cls = "PowerPointTool" -> {"content"}
      [] cls = "OutlookIntegrationTool" -> {"to", "attendees"}
      [] OTHER -> {}

\* execute of the instance of class cls
Execute(cls, kw, env, token) ==
    CASE cls = "CalculatorTool" -> CalculatorTool_execute(kw, env)
      [] cls = "JSONProcessorTool" -> JSONProcessorTool_execute(kw, env)
      [] cls = "FileReaderTool" -> FileReaderTool_execute(kw, env)
      [] cls = "FileWriterTool" -> FileWriterTool_execute(kw, env)
      [] cls = "MeetingSummarizerTool" -> MeetingSummarizerTool_execute(kw, env)
      [] cls = "EmailIntegrationTool" -> EmailIntegrationTool_execute(kw, env)
      [] cls = "SlackIntegrationTool" -> SlackIntegrationTool_execute(kw, env)
      [] cls = "CalendarTool" -> CalendarTool_execute(kw, env)
      [] cls = "PowerPointTool" -> PowerPointTool_execute(kw, env)
      [] cls = "OutlookIntegrationTool" -> OutlookIntegrationTool_execute(kw, env, token)
      [] cls = "SlackRealTool" -> SlackRealTool_execute(kw, env)

\* tool.execute(**kwargs): the binding, then the body
CallExecute(cls, kw, env, token) ==
    IF BindError(cls, kw) # ""
    THEN Raised(<<>>, "TypeError", BindError(cls, kw))
    ELSE Execute(cls, kw, env, token)

\* access_token after the call
TokenAfter(cls, kw, env, token) ==
    IF cls = "OutlookIntegrationTool" /\ BindError(cls, kw) = ""
    THEN OutlookToken(token, env)
    ELSE token

(***************************************************************************)
(* base_tool.py: the telemetry of one instance,                            *)
(* [call_count, last_called, errors].                                      *)
(***************************************************************************)
\* how many entries get_stats reports as recent
RecentErrors == 3

NewTelemetry == [call_count |-> 0, last_called |-> None, errors |-> <<>>]

\* log_call that books a failed call in the errors only
log_call_ErrorOnly(t, success, error, now) ==
    [call_count |-> IF success THEN t.call_count + 1 ELSE t.call_count,
     last_called |-> now,
     errors |-> IF ~success /\ error # ""
                THEN Append(t.errors, [time |-> now, error |-> error])
                ELSE t.errors]

\* log_call that keeps the last error only
log_call_LastErrorOnly(t, success, error, now) ==
    [call_count |-> t.call_count + 1,
     last_called |-> now,
     errors |-> IF ~success /\ error # ""
                THEN <<[time |-> now, error |-> error]>>
                ELSE t.errors]

\* log_call that stamps last_called on a success only
log_call_StampOnSuccess(t, success, error, now) ==
    [call_count |-> t.call_count + 1,
     last_called |-> IF success THEN now ELSE t.last_called,
     errors |-> IF ~success /\ error # ""
                THEN Append(t.errors, [time |-> now, error |-> error])
                ELSE t.errors]

log_call(t, success, error, now) ==
    [call_count |-> t.call_count + 1,
     last_called |-> now,
     errors |-> IF ~success /\ error # ""
                THEN Append(t.errors, [time |-> now, error |-> error])
                ELSE t.errors]

\* the log_call calls of one execute, applied in order; each reads the clock,
\* which has moved on since the one before
RECURSIVE ApplyLogs(_, _, _)
ApplyLogs(t, logs, now) ==
    IF logs = <<>> THEN t
    ELSE ApplyLogs(log_call(t, Head(logs).success, Head(logs).error, now),
                   Tail(logs), now + 1)

\* datetime.isoformat()
Isoformat(time) == "T" \o ToString(time)

get_stats(cls) ==
    [name |-> ToolName(cls),
     call_count |-> call_count[cls],
     last_called |-> IF last_called[cls] # None THEN Isoformat(last_called[cls]) ELSE "None",
     error_count |-> Len(errors[cls]),
     recent_errors |-> IF errors[cls] # <<>> THEN LastN(errors[cls], RecentErrors) ELSE <<>>]

Telemetry(cls) ==
    [call_count |-> call_count[cls], last_called |-> last_called[cls], errors |-> errors[cls]]

(***************************************************************************)
(* The invocations the model explores.                                     *)
(***************************************************************************)
NoKwargs == <<>>
Ops(cls) == Schema(cls).enum.operation \cup {"bogus"}

Inputs(cls) ==
    CASE cls = "CalculatorTool" ->
            {NoKwargs, [expression |-> ExprScenario], [expression |-> ExprImport],
             [expression |-> ExprDivZero],
             [expression |-> ExprScenario, trace_id |-> "t1"]}
      [] cls = "JSONProcessorTool" ->
            {[json_data |-> JsonRecord], [json_data |-> "not json", operation |-> "validate"]}
            \cup {[json_data |-> JsonRecord, operation |-> o] : o \in Ops(cls)}
      [] cls = "FileReaderTool" -> {NoKwargs, [file_path |-> "notes.txt"]}
      [] cls = "FileWriterTool" ->
            {[file_path |-> "out.txt"], [file_path |-> "out.txt", content |-> "text"],
             [file_path |-> "out.txt", content |-> "text", trace_id |-> "t1"]}
      [] cls = "MeetingSummarizerTool" ->
            {[meeting_content |-> "notes"],
             [meeting_content |-> "notes", meeting_title |-> "sync"],
             [meeting_content |-> "notes", meeting_title |-> "sync", format |-> "executive"],
             [meeting_content |-> "notes", meeting_title |-> "sync", format |-> "bogus"]}
      [] cls = "EmailIntegrationTool" ->
            {[operation |-> "read_recent"]}
            \cup {[operation |-> o, email_config |-> "config"] : o \in Ops(cls)}
      [] cls = "SlackIntegrationTool" ->
            {[operation |-> "read_messages"]}
            \cup {[operation |-> o, token |-> "xoxb"] : o \in Ops(cls)}
      [] cls = "CalendarTool" ->
            {NoKwargs, [operation |-> "send_invite", attendees |-> PyNone],
             [operation |-> "send_invite", attendees |-> PyList(<<"a@example.org">>)]}
            \cup {[operation |-> o] : o \in Ops(cls)}
      [] cls = "PowerPointTool" ->
            {NoKwargs, [operation |-> "add_slide", content |-> PyNone]}
            \cup {[operation |-> o] : o \in Ops(cls)}
      [] cls = "OutlookIntegrationTool" ->
            {NoKwargs} \cup {[operation |-> o] : o \in Ops(cls)}
      [] cls = "SlackRealTool" ->
            {NoKwargs, [operation |-> "upload_file", file_path |-> "report.pdf"]}
            \cup {[operation |-> o] : o \in Ops(cls)}

Envs(cls) ==
    CASE cls = "FileReaderTool" -> {"ok", "absent", "unreadable", "vanished"}
      [] cls = "FileWriterTool" -> {"ok", "unwritable"}
      [] cls = "SlackRealTool" -> {"ok", "api_error", "absent"}
      [] cls = "OutlookIntegrationTool" -> {"ok", "token_denied", "http_error"}
      [] OTHER -> {"ok"}

\* a name no tool class has
UnknownNames == {"does_not_exist"}

ClassOfName(name) == CHOOSE cls \in ToolClasses : ToolName(cls) = name

RECURSIVE SumCalls(_)
SumCalls(S) ==
    IF S = {} THEN 0
    ELSE LET c == CHOOSE x \in S : TRUE IN call_count[c] + SumCalls(S \ {c})

\* the capabilities that have been logged at least once
Active == {c \in ToolClasses : call_count[c] > 0}

(***************************************************************************)
(* simple_server.py                                                        *)
(***************************************************************************)
\* the classes register_all_tools instantiates, in order, when the modules
\* in failedModules fail to import and the classes in failedClasses fail to
\* instantiate
RECURSIVE Discovered(_, _, _)
Discovered(modules, failedModules, failedClasses) ==
    IF modules = <<>> THEN <<>>
    ELSE LET m == Head(modules)
             found == IF m \in failedModules THEN <<>>
                      ELSE SelectSeq(ModuleClasses(m), LAMBDA c : c \notin failedClasses)
         IN found \o Discovered(Tail(modules), failedModules, failedClasses)

\* A tool instance is written as its class.  Two more instances are written
\* out for the calls of register_tool that meet a name already registered: a
\* second CalculatorTool(), and a SlackRealTool whose name attribute was set
\* to "slack_integration".
SecondCalculator == "CalculatorTool#2"
RenamedSlackReal == "SlackRealTool as slack_integration"
ExtraInstances == {SecondCalculator, RenamedSlackReal}

\* type(tool_instance)
ClassOf(inst) ==
    CASE inst = SecondCalculator -> "CalculatorTool"
      [] inst = RenamedSlackReal -> "SlackRealTool"
      [] OTHER -> inst

\* tool_instance.name
NameOf(inst) ==
    IF inst = RenamedSlackReal THEN "slack_integration" ELSE ToolName(ClassOf(inst))

\* register_tool that keeps the schema a name already has
register_tool_KeepsSchema(reg, cls) ==
    <<DictSet(reg[1], NameOf(cls), cls),
      IF NameOf(cls) \in Keys(reg[2]) THEN reg[2]
      ELSE DictSet(reg[2], NameOf(cls), Schema(ClassOf(cls)))>>

\* SimpleToolRegistry.register_tool on the pair <<tools, tool_schemas>>
register_tool(reg, cls) ==
    <<DictSet(reg[1], NameOf(cls), cls), DictSet(reg[2], NameOf(cls), Schema(ClassOf(cls)))>>

RECURSIVE RegisterEach(_, _)
RegisterEach(reg, classes) ==
    IF classes = <<>> THEN reg
    ELSE RegisterEach(register_tool(reg, Head(classes)), Tail(classes))

\* AirGappedMCPServer.register_all_tools, run once at startup
register_all_tools ==
    /\ server = "simple"
    /\ tools = <<>>
    /\ op # "execute_tool"
    /\ LET reg == RegisterEach(<<tools, tool_schemas>>, Discovered(Modules, {}, {})) IN
       /\ tools' = reg[1]
       /\ tool_schemas' = reg[2]
    /\ op' = "register_all_tools"
    /\ UNCHANGED <<dashboard, tasks, task_logs, server, registered_tools, call_handler, telemetry, access_token,
                   clock, request, result>>

\* ExecuteToolResult with the name left unquoted in the not-found message
ExecuteToolResult_Unquoted(registry, tool_name, kw, env, token) ==
    IF tool_name \notin Keys(registry)
    THEN Failure("Tool " \o tool_name \o " not found")
    ELSE LET r == CallExecute(Lookup(registry, tool_name), kw, env, token) IN
         IF r.kind = "raise"
         THEN Failure("Tool execution error: " \o r.value.message)
         ELSE r.value

\* what SimpleToolRegistry.execute_tool returns
ExecuteToolResult(registry, tool_name, kw, env, token) ==
    IF tool_name \notin Keys(registry)
    THEN Failure("Tool '" \o tool_name \o "' not found")
    ELSE LET r == CallExecute(Lookup(registry, tool_name), kw, env, token) IN
         IF r.kind = "raise"
         THEN Failure("Tool execution error: " \o r.value.message)
         ELSE r.value

\* Invoke that books a failed call on the first registered tool when the name
\* is not registered
Invoke_LogsUnknown(registry, tool_name, kw, env) ==
    LET registered == tool_name \in Keys(registry)
        cls == IF registered THEN Lookup(registry, tool_name) ELSE registry[1].value
        logs == IF registered THEN CallExecute(cls, kw, env, access_token).logs
                ELSE <<LogFalse("Tool '" \o tool_name \o "' not found")>>
        after == ApplyLogs(Telemetry(cls), logs, clock)
    IN
    IF registry # <<>>
    THEN /\ call_count' = [call_count EXCEPT ![cls] = after.call_count]
         /\ last_called' = [last_called EXCEPT ![cls] = after.last_called]
         /\ errors' = [errors EXCEPT ![cls] = after.errors]
         /\ access_token' = IF registered THEN TokenAfter(cls, kw, env, access_token)
                            ELSE access_token
         /\ clock' = clock + Len(logs)
    ELSE UNCHANGED <<telemetry, access_token, clock>>

\* Invoke on instances that share one errors list
Invoke_SharedErrors(registry, tool_name, kw, env) ==
    LET registered == tool_name \in Keys(registry)
        cls == Lookup(registry, tool_name)
        logs == IF registered THEN CallExecute(cls, kw, env, access_token).logs ELSE <<>>
        after == ApplyLogs(Telemetry(cls), logs, clock)
    IN
    IF registered
    THEN /\ call_count' = [call_count EXCEPT ![cls] = after.call_count]
         /\ last_called' = [last_called EXCEPT ![cls] = after.last_called]
         /\ errors' = [c \in ToolClasses |-> after.errors]
         /\ access_token' = TokenAfter(cls, kw, env, access_token)
         /\ clock' = clock + Len(logs)
    ELSE UNCHANGED <<telemetry, access_token, clock>>

\* the telemetry, the token and the clock after the tool registered as
\* tool_name ran
Invoke(registry, tool_name, kw, env) ==
    LET registered == tool_name \in Keys(registry)
        cls == Lookup(registry, tool_name)
        logs == IF registered THEN CallExecute(cls, kw, env, access_token).logs ELSE <<>>
        after == ApplyLogs(Telemetry(cls), logs, clock)
    IN
    IF registered
    THEN /\ call_count' = [call_count EXCEPT ![cls] = after.call_count]
         /\ last_called' = [last_called EXCEPT ![cls] = after.last_called]
         /\ errors' = [errors EXCEPT ![cls] = after.errors]
         /\ access_token' = TokenAfter(cls, kw, env, access_token)
         /\ clock' = clock + Len(logs)
    ELSE UNCHANGED <<telemetry, access_token, clock>>

\* SimpleToolRegistry.execute_tool(tool_name, **kw)
execute_tool(tool_name, kw, env) ==
    /\ server = "simple"
    /\ op # "execute_tool"
    /\ Invoke(tools, tool_name, kw, env)
    /\ result' = ExecuteToolResult(tools, tool_name, kw, env, access_token)
    /\ request' = [name |-> tool_name, kwargs |-> kw, env |-> env]
    /\ op' = "execute_tool"
    /\ UNCHANGED <<dashboard, tasks, task_logs, server, tools, tool_schemas, registered_tools, call_handler>>

(***************************************************************************)
(* server_fixed.py                                                         *)
(***************************************************************************)
\* TextContent(type="text", text=...)
TextContent(text) == [type |-> "text", text |-> text]

\* MCPServer.register_tool on the pair <<registered_tools, handler slot>>: the
\* decorator self.server.call_tool() stores the new handle_tool_call closure
\* as the server's one call handler.
fixed_register_tool(reg, cls) ==
    <<DictSet(reg[1], NameOf(cls), cls), <<cls>>>>

RECURSIVE FixedRegisterEach(_, _)
FixedRegisterEach(reg, classes) ==
    IF classes = <<>> THEN reg
    ELSE FixedRegisterEach(fixed_register_tool(reg, Head(classes)), Tail(classes))

\* MCPServer.register_all_tools, run once by MCPServer.run
fixed_register_all_tools ==
    /\ server = "fixed"
    /\ registered_tools = <<>>
    /\ LET reg == FixedRegisterEach(<<registered_tools, call_handler>>,
                                    Discovered(Modules, {}, {})) IN
       /\ registered_tools' = reg[1]
       /\ call_handler' = reg[2]
    /\ op' = "register_all_tools"
    /\ UNCHANGED <<dashboard, tasks, task_logs, server, tools, tool_schemas, telemetry, access_token, clock,
                   request, result>>

\* What the stored handle_tool_call closure, made for the instance of class
\* cls, hands to its caller: a list of one TextContent, or the exception that
\* leaves it.
HandleToolCallResult(cls, name, arguments, env, token) ==
    IF name = ToolName(cls)
    THEN LET r == CallExecute(cls, arguments, env, token) IN
         IF r.kind = "raise" THEN r.value ELSE TextContent(ToString(r.value))
    ELSE TextContent("Unknown tool: " \o name)

\* the one instance the stored closure can reach, as a registry
HandlerRegistry == <<[key |-> ToolName(call_handler[1]), value |-> call_handler[1]]>>

\* the call handler of the mcp server, on a tools/call request
handle_tool_call(name, arguments, env) ==
    /\ server = "fixed"
    /\ call_handler # <<>>
    /\ op # "handle_tool_call"
    /\ Invoke(HandlerRegistry, name, arguments, env)
    /\ result' = HandleToolCallResult(call_handler[1], name, arguments, env, access_token)
    /\ request' = [name |-> name, kwargs |-> arguments, env |-> env]
    /\ op' = "handle_tool_call"
    /\ UNCHANGED <<dashboard, tasks, task_logs, server, tools, tool_schemas, registered_tools, call_handler>>

(***************************************************************************)
(* The caller and the specifications.                                      *)
(***************************************************************************)
(***************************************************************************)
(* web_dashboard.py: a process of its own, with its own tool instances.    *)
(* The emoji that starts each log message is left out of the messages.     *)
(***************************************************************************)
\* the classes web_dashboard imports, in the order of its tools dict
DashboardClasses ==
    <<"FileReaderTool", "FileWriterTool", "CalculatorTool", "JSONProcessorTool",
      "MeetingSummarizerTool", "EmailIntegrationTool", "SlackIntegrationTool",
      "CalendarTool", "PowerPointTool">>

\* a dashboard whose tools dict holds the instances of the server's registry
DashboardInstance_Shared(cls) == cls

\* the instance FileReaderTool(), ... that the module creates for its dict
DashboardInstance(cls) == cls \o "@web_dashboard"

DashboardInstances == {DashboardInstance(DashboardClasses[i]) : i \in 1..Len(DashboardClasses)}

\* type(tool) of an instance of the dashboard
DashboardClass(inst) ==
    CHOOSE c \in {DashboardClasses[i] : i \in 1..Len(DashboardClasses)} :
        DashboardInstance(c) = inst

\* the module's dict tools
DashboardTools ==
    [i \in 1..Len(DashboardClasses) |->
        [key |-> ToolName(DashboardClasses[i]), value |-> DashboardInstance(DashboardClasses[i])]]

\* datetime.strftime("%H:%M:%S")
Strftime(time) == ToString(time)

\* the globals when start_dashboard has appended its startup log at time 0
DashboardStart ==
    [server_logs |-> <<[time |-> Strftime(0),
                        message |-> "Enhanced MCP Dashboard started with "
                                    \o ToString(Len(DashboardTools)) \o " tools"]>>,
     tool_calls |-> <<>>,
     server_stats |-> [total_requests |-> 0, active_tools |-> 0]]

\* the sample parameters test_tool_advanced passes to each tool
SampleKwargs(tool_name, now) ==
    CASE tool_name = "file_reader" -> [file_path |-> "web_dashboard.py"]
      [] tool_name = "file_writer" ->
            [file_path |-> "/tmp/mcp_test.txt", content |-> "Hello from MCP Dashboard!"]
      [] tool_name = "calculator" -> [expression |-> ExprScenario]
      [] tool_name = "json_processor" ->
            [json_data |-> DashboardJson, operation |-> "validate"]
      [] tool_name = "meeting_summarizer" ->
            [meeting_content |-> "John: Let's review the project.",
             meeting_title |-> "Quick Sync", format |-> "structured"]
      [] tool_name = "email_integration" ->
            [operation |-> "read_recent",
             email_config |-> [smtp_server |-> "demo", email |-> "demo@test.com",
                               password |-> "demo"]]
      [] tool_name = "slack_integration" ->
            [operation |-> "read_messages", token |-> "demo_token", channel |-> "general"]
      [] tool_name = "calendar_tool" ->
            [operation |-> "create_meeting", title |-> "MCP Demo Meeting",
             start_time |-> Isoformat(now), attendees |-> PyList(<<"demo@test.com">>)]
      [] tool_name = "powerpoint_tool" ->
            [operation |-> "create_presentation", title |-> "MCP Server Demo"]

NoRequest == [name |-> "", kwargs |-> NoKwargs, env |-> "ok"]
NoResult == [type |-> "none"]

\* the caller takes the result; it may then invoke again
take_result ==
    /\ op \in {"execute_tool", "handle_tool_call", "list_tools", "get_stats",
               "test_tool", "api_stats"}
    /\ op' = "idle"
    /\ request' = NoRequest
    /\ result' = NoResult
    /\ UNCHANGED <<dashboard, tasks, task_logs, server, tools, tool_schemas, registered_tools, call_handler,
                   telemetry, access_token, clock>>

Names == {ToolName(c) : c \in ToolClasses} \cup UnknownNames
KwargsFor(name) ==
    IF name \in UnknownNames THEN {NoKwargs, [expression |-> ExprScenario]}
    ELSE Inputs(ClassOfName(name))
EnvsFor(name) == IF name \in UnknownNames THEN {"ok"} ELSE Envs(ClassOfName(name))

Init ==
    /\ server \in {"simple", "fixed"}
    /\ tools = <<>>
    /\ tool_schemas = <<>>
    /\ registered_tools = <<>>
    /\ call_handler = <<>>
    /\ call_count = [c \in ToolClasses |-> 0]
    /\ last_called = [c \in ToolClasses |-> None]
    /\ errors = [c \in ToolClasses |-> <<>>]
    /\ access_token = None
    /\ clock = 1
    /\ op = "init"
    /\ request = NoRequest
    /\ result = NoResult
    /\ tasks = <<>>
    /\ task_logs = <<>>
    /\ dashboard = DashboardStart

\* an invocation through the dispatcher of simple_server
ExecuteTool ==
    /\ SumCalls(ToolClasses) < MaxCalls
    /\ \E name \in Names : \E kw \in KwargsFor(name) : \E env \in EnvsFor(name) :
          execute_tool(name, kw, env)

\* an invocation through the call handler of server_fixed
HandleToolCall ==
    /\ SumCalls(ToolClasses) < MaxCalls
    /\ \E name \in Names : \E kw \in KwargsFor(name) : \E env \in EnvsFor(name) :
          handle_tool_call(name, kw, env)

Next ==
    \/ register_all_tools
    \/ fixed_register_all_tools
    \/ ExecuteTool
    \/ HandleToolCall
    \/ take_result

Spec == Init /\ [][Next]_vars

\* The runs that keep invoking one capability: its telemetry grows longer than
\* in Spec.
ExecuteToolAgain ==
    /\ SumCalls(ToolClasses) < MaxHistory
    /\ \E name \in Names \ UnknownNames :
          /\ Active \subseteq {ClassOfName(name)}
          /\ \E kw \in KwargsFor(name) : \E env \in EnvsFor(name) :
                execute_tool(name, kw, env)

HandleToolCallAgain ==
    /\ SumCalls(ToolClasses) < MaxHistory
    /\ \E name \in Names \ UnknownNames :
          /\ Active \subseteq {ClassOfName(name)}
          /\ \E kw \in KwargsFor(name) : \E env \in EnvsFor(name) :
                handle_tool_call(name, kw, env)

\* the caller is not waiting for a dispatcher
Idle == op \in {"register_all_tools", "idle"}

\* the description each class passes to MCPTool.__init__
Description(cls) ==
    CASE cls = "CalculatorTool" -> "Perform mathematical calculations"
      [] cls = "JSONProcessorTool" -> "Process and manipulate JSON data"
      [] cls = "FileReaderTool" -> "Read contents of a text file"
      [] cls = "FileWriterTool" -> "Write content to a text file"
      [] cls = "MeetingSummarizerTool" ->
            "Generate structured meeting summaries from transcripts or notes"
      [] cls = "EmailIntegrationTool" -> "Read, send, and search emails via IMAP/SMTP"
      [] cls = "SlackIntegrationTool" ->
            "Read messages and post updates to Slack channels"
      [] cls = "CalendarTool" -> "Create meeting invites and manage calendar events"
      [] cls = "PowerPointTool" -> "Create and manipulate PowerPoint presentations"
      [] cls = "OutlookIntegrationTool" ->
            "Real Microsoft Outlook email and calendar integration"
      [] cls = "SlackRealTool" -> "Real Slack integration with Web API"

\* SimpleToolRegistry.list_tools(): for every item of tools, in the order of
\* the dict, the name, the description of the instance held and the entry
\* of tool_schemas
ListTools(registry, schemas) ==
    [i \in 1..Len(registry) |->
        [name |-> registry[i].key,
         description |-> Description(ClassOf(registry[i].value)),
         schema |-> Lookup(schemas, registry[i].key)]]

\* list_tools that consumes the schemas it lists
list_tools_Pops ==
    /\ server = "simple"
    /\ Idle
    /\ result' = [type |-> "list", items |-> ListTools(tools, tool_schemas)]
    /\ tool_schemas' = <<>>
    /\ request' = NoRequest
    /\ op' = "list_tools"
    /\ UNCHANGED <<dashboard, tasks, task_logs, server, tools, registered_tools, call_handler, telemetry,
                   access_token, clock>>

list_tools ==
    /\ server = "simple"
    /\ Idle
    /\ result' = [type |-> "list", items |-> ListTools(tools, tool_schemas)]
    /\ request' = NoRequest
    /\ op' = "list_tools"
    /\ UNCHANGED <<dashboard, tasks, task_logs, server, tools, tool_schemas, registered_tools, call_handler,
                   telemetry, access_token, clock>>

\* MCPServer.list_tools() of server_fixed: the registered names
fixed_list_tools ==
    /\ server = "fixed"
    /\ Idle
    /\ result' = [type |-> "list", items |-> KeyList(registered_tools)]
    /\ request' = NoRequest
    /\ op' = "list_tools"
    /\ UNCHANGED <<dashboard, tasks, task_logs, server, tools, tool_schemas, registered_tools, call_handler,
                   telemetry, access_token, clock>>

\* get_stats that cuts the stored errors to the ones it reports
tool_get_stats_Trims ==
    /\ op = "idle"
    /\ \E cls \in Active :
          /\ result' = [type |-> "stats", stats |-> get_stats(cls)]
          /\ request' = [name |-> ToolName(cls), kwargs |-> NoKwargs, env |-> "ok"]
          /\ errors' = [errors EXCEPT ![cls] = LastN(errors[cls], RecentErrors)]
    /\ op' = "get_stats"
    /\ UNCHANGED <<dashboard, tasks, task_logs, server, tools, tool_schemas, registered_tools,
                   call_handler, call_count, last_called, access_token, clock>>

\* get_stats() of the instance of a capability that was invoked
tool_get_stats ==
    /\ op = "idle"
    /\ \E cls \in Active :
          /\ result' = [type |-> "stats", stats |-> get_stats(cls)]
          /\ request' = [name |-> ToolName(cls), kwargs |-> NoKwargs, env |-> "ok"]
    /\ op' = "get_stats"
    /\ UNCHANGED <<dashboard, tasks, task_logs, server, tools, tool_schemas, registered_tools, call_handler,
                   telemetry, access_token, clock>>

NextHistory ==
    \/ register_all_tools
    \/ fixed_register_all_tools
    \/ ExecuteToolAgain
    \/ HandleToolCallAgain
    \/ list_tools
    \/ fixed_list_tools
    \/ tool_get_stats
    \/ take_result

SpecHistory == Init /\ [][NextHistory]_vars

(***************************************************************************)
(* Startup with providers that fail, and register_tool on a name that is   *)
(* already registered.  server.py is the third server variant: its         *)
(* register_all_tools calls the register_tools(server) of every module,    *)
(* and the decorator server.tool(name) stores into registered_tools.       *)
(***************************************************************************)
\* the expressions given to the calculator have at most this many characters
MaxExprLen == 3

\* a digit, an operator and a letter
ExprAlphabet == {"1", "+", "x"}

RECURSIVE ExprsOfLen(_)
ExprsOfLen(n) ==
    IF n = 0 THEN {<<>>}
    ELSE {Append(e, c) : e \in ExprsOfLen(n - 1), c \in ExprAlphabet}

Expressions == UNION {ExprsOfLen(n) : n \in 0..MaxExprLen}

\* execute_tool("calculator", expression=...) with a string of the alphabet
Calculate ==
    /\ SumCalls(ToolClasses) < MaxCalls
    /\ \E e \in Expressions : execute_tool("calculator", [expression |-> e], "ok")

InitCalculator == Init /\ server = "simple"

NextCalculator ==
    \/ register_all_tools
    \/ Calculate
    \/ take_result

SpecCalculator == InitCalculator /\ [][NextCalculator]_vars

\* at most this many modules and classes fail in one discovery
MaxFailures == 2

\* pkgutil.iter_modules(handlers.__path__) without __init__ (server.py)
ExtendedModules == <<"base_tool">> \o Modules

\* the instances register_tools(server) of module m creates, in the order of
\* its @server.tool decorators; base_tool has no register_tools
RegisterTools(m) ==
    CASE m = "base_tool" -> <<>>
      [] m = "data_tools" -> <<"CalculatorTool", "JSONProcessorTool">>
      [] m = "file_tools" -> <<"FileReaderTool", "FileWriterTool">>
      [] m = "office_tools" -> <<"MeetingSummarizerTool", "EmailIntegrationTool",
                                 "SlackIntegrationTool", "CalendarTool",
                                 "PowerPointTool">>
      [] m = "outlook_integration" -> <<"OutlookIntegrationTool">>
      [] m = "slack_real" -> <<"SlackRealTool">>

\* server.py: register_tools creates all its instances before its first
\* decorator runs, so one failing class leaves the loop body through the
\* except of the module
RECURSIVE ExtendedDiscovered(_, _, _)
ExtendedDiscovered(modules, failedModules, failedClasses) ==
    IF modules = <<>> THEN <<>>
    ELSE LET m == Head(modules)
             created == RegisterTools(m)
             found == IF \/ m \in failedModules
                         \/ \E i \in 1..Len(created) : created[i] \in failedClasses
                      THEN <<>> ELSE created
         IN found \o ExtendedDiscovered(Tail(modules), failedModules, failedClasses)

\* MCPServer.tool_decorator(name)(func) of server.py on registered_tools
tool_decorator(reg, inst) == DictSet(reg, NameOf(inst), inst)

RECURSIVE DecorateEach(_, _)
DecorateEach(reg, classes) ==
    IF classes = <<>> THEN reg
    ELSE DecorateEach(tool_decorator(reg, Head(classes)), Tail(classes))

\* the discovery that ran, and the failures it met
Discovery(failedModules, failedClasses) ==
    [name |-> "register_all_tools", kwargs |-> NoKwargs,
     env |-> [failedModules |-> failedModules, failedClasses |-> failedClasses]]

\* register_all_tools of the three servers, when the modules in
\* failedModules fail to import and the classes in failedClasses fail to
\* instantiate
register_all_tools_failing(failedModules, failedClasses) ==
    /\ server = "simple"
    /\ op = "init"
    /\ LET reg == RegisterEach(<<tools, tool_schemas>>,
                               Discovered(Modules, failedModules, failedClasses)) IN
       /\ tools' = reg[1]
       /\ tool_schemas' = reg[2]
    /\ op' = "register_all_tools"
    /\ request' = Discovery(failedModules, failedClasses)
    /\ UNCHANGED <<dashboard, tasks, task_logs, server, registered_tools, call_handler, telemetry, access_token,
                   clock, result>>

fixed_register_all_tools_failing(failedModules, failedClasses) ==
    /\ server = "fixed"
    /\ op = "init"
    /\ LET reg == FixedRegisterEach(<<registered_tools, call_handler>>,
                                    Discovered(Modules, failedModules, failedClasses)) IN
       /\ registered_tools' = reg[1]
       /\ call_handler' = reg[2]
    /\ op' = "register_all_tools"
    /\ request' = Discovery(failedModules, failedClasses)
    /\ UNCHANGED <<dashboard, tasks, task_logs, server, tools, tool_schemas, telemetry, access_token, clock, result>>

extended_register_all_tools_failing(failedModules, failedClasses) ==
    /\ server = "extended"
    /\ op = "init"
    /\ registered_tools' =
          DecorateEach(registered_tools,
                       ExtendedDiscovered(ExtendedModules, failedModules, failedClasses))
    /\ op' = "register_all_tools"
    /\ request' = Discovery(failedModules, failedClasses)
    /\ UNCHANGED <<dashboard, tasks, task_logs, server, tools, tool_schemas, call_handler, telemetry, access_token,
                   clock, result>>

\* the failures one discovery meets
Failures ==
    {f \in (SUBSET {Modules[i] : i \in 1..Len(Modules)}) \X (SUBSET ToolClasses) :
        Cardinality(f[1]) + Cardinality(f[2]) <= MaxFailures}

DiscoverSimple == \E f \in Failures : register_all_tools_failing(f[1], f[2])
DiscoverFixed == \E f \in Failures : fixed_register_all_tools_failing(f[1], f[2])
DiscoverExtended == \E f \in Failures : extended_register_all_tools_failing(f[1], f[2])

\* one more call of the server's register_tool (server.py: of its decorator)
\* after discovery, with an instance of the handlers package
RegisterTool ==
    /\ op = "register_all_tools"
    /\ \E inst \in ToolClasses \cup ExtraInstances :
          /\ CASE server = "simple" ->
                    /\ tools' = register_tool(<<tools, tool_schemas>>, inst)[1]
                    /\ tool_schemas' = register_tool(<<tools, tool_schemas>>, inst)[2]
                    /\ UNCHANGED <<registered_tools, call_handler>>
               [] server = "fixed" ->
                    /\ registered_tools'
                         = fixed_register_tool(<<registered_tools, call_handler>>, inst)[1]
                    /\ call_handler'
                         = fixed_register_tool(<<registered_tools, call_handler>>, inst)[2]
                    /\ UNCHANGED <<tools, tool_schemas>>
               [] server = "extended" ->
                    /\ registered_tools' = tool_decorator(registered_tools, inst)
                    /\ UNCHANGED <<tools, tool_schemas, call_handler>>
          /\ request' = [name |-> "register_tool", kwargs |-> [tool_instance |-> inst],
                         env |-> "ok"]
    /\ op' = "register_tool"
    /\ UNCHANGED <<dashboard, tasks, task_logs, server, telemetry, access_token, clock, result>>

\* list_tools() after the registrations, any number of times
ListRegistered ==
    /\ op \in {"register_all_tools", "register_tool", "list_tools"}
    /\ result' = [type |-> "list",
                  items |-> IF server = "simple" THEN ListTools(tools, tool_schemas)
                            ELSE KeyList(registered_tools)]
    /\ op' = "list_tools"
    /\ UNCHANGED <<dashboard, tasks, task_logs, server, tools, tool_schemas, registered_tools, call_handler,
                   telemetry, access_token, clock, request>>

InitDiscovery ==
    /\ server \in {"simple", "fixed", "extended"}
    /\ tools = <<>>
    /\ tool_schemas = <<>>
    /\ registered_tools = <<>>
    /\ call_handler = <<>>
    /\ call_count = [c \in ToolClasses |-> 0]
    /\ last_called = [c \in ToolClasses |-> None]
    /\ errors = [c \in ToolClasses |-> <<>>]
    /\ access_token = None
    /\ clock = 1
    /\ op = "init"
    /\ request = NoRequest
    /\ result = NoResult
    /\ tasks = <<>>
    /\ task_logs = <<>>
    /\ dashboard = DashboardStart

NextDiscovery ==
    \/ DiscoverSimple
    \/ DiscoverFixed
    \/ DiscoverExtended
    \/ RegisterTool
    \/ ListRegistered

SpecDiscovery == InitDiscovery /\ [][NextDiscovery]_vars

(***************************************************************************)
(* Concurrent invocations of one capability on the event loop.  A          *)
(* coroutine runs without interruption from one await to the next; the     *)
(* execute of SlackRealTool awaits the HTTP request and calls log_call     *)
(* after the response, with no await in between.                           *)
(***************************************************************************)
\* at most this many invocations are started in one run
MaxConcurrent == 3

\* the calls of slack_real that are started as tasks
ConcurrentInputs == {[operation |-> "post_message"], [operation |-> "read_messages"]}

\* the call reaches the await of the HTTP request
AwaitsRequest(cls, kw, env) ==
    /\ cls = "SlackRealTool"
    /\ BindError(cls, kw) = ""
    /\ \/ kw.operation \in {"post_message", "read_messages", "get_channels"}
       \/ kw.operation = "upload_file" /\ "file_path" \in DOMAIN kw /\ env # "absent"

\* execute_tool("slack_real", **kw) is started as a task and runs up to the
\* await of its HTTP request
create_task(kw) ==
    /\ server = "simple"
    /\ "slack_real" \in Keys(tools)
    /\ call_count["SlackRealTool"] + Len(tasks) < MaxConcurrent
    /\ AwaitsRequest(Lookup(tools, "slack_real"), kw, "ok")
    /\ tasks' = Append(tasks, [id |-> call_count["SlackRealTool"] + Len(tasks) + 1,
                               name |-> "slack_real", kwargs |-> kw])
    /\ op' = "create_task"
    /\ UNCHANGED <<dashboard, server, tools, tool_schemas, registered_tools, call_handler,
                   telemetry, access_token, clock, request, result, task_logs>>

\* the log_call calls of a resumed coroutine, as entries of task_logs
Logged(id, logs, now) ==
    [i \in 1..Len(logs) |-> [task |-> id, success |-> logs[i].success,
                             error |-> logs[i].error, time |-> now + i - 1]]

\* the response of the i-th suspended task arrives (env: "ok" or
\* "api_error"); the coroutine runs to its end
resume_task(i, env) ==
    /\ i \in 1..Len(tasks)
    /\ LET task == tasks[i]
           logs == CallExecute(Lookup(tools, task.name), task.kwargs, env, access_token).logs
       IN /\ Invoke(tools, task.name, task.kwargs, env)
          /\ result' = ExecuteToolResult(tools, task.name, task.kwargs, env, access_token)
          /\ request' = [name |-> task.name, kwargs |-> task.kwargs, env |-> env]
          /\ task_logs' = task_logs \o Logged(task.id, logs, clock)
          /\ tasks' = [j \in 1..(Len(tasks) - 1) |-> IF j < i THEN tasks[j] ELSE tasks[j + 1]]
    /\ op' = "resume_task"
    /\ UNCHANGED <<dashboard, server, tools, tool_schemas, registered_tools, call_handler>>

CreateTask == \E kw \in ConcurrentInputs : create_task(kw)
ResumeTask == \E i \in 1..Len(tasks) : \E env \in {"ok", "api_error"} : resume_task(i, env)

NextConcurrent ==
    \/ register_all_tools
    \/ CreateTask
    \/ ResumeTask

\* the process runs simple_server.py
InitConcurrent == Init /\ server = "simple"

SpecConcurrent == InitConcurrent /\ [][NextConcurrent]_vars

(***************************************************************************)
(* Concurrent invocations of the Outlook capability.  execute awaits       *)
(* _get_access_token, which returns the stored token at once or awaits the *)
(* token request and stores its answer; execute then awaits the Graph      *)
(* request and calls log_call after the response.  A task is               *)
(* [id, kwargs, phase, token]: phase "token" while the token request is    *)
(* awaited, "graph" while the Graph request is; token is the local         *)
(* variable of execute, None until _get_access_token has returned.         *)
(***************************************************************************)
\* at most this many invocations of the Outlook capability are started
MaxTokenCalls == 3

\* the calls of outlook_integration that are started as tasks
TokenInputs == {[operation |-> "read_emails"], [operation |-> "send_email"]}

\* _get_access_token that never looks at the stored token
HasAccessToken_Never(token) == FALSE

\* if self.access_token: return self.access_token
HasAccessToken(token) == token # None

\* token_data['access_token'] of the answer to the request of task id: every
\* token request is answered with a token of its own
IssuedToken(id) == id

\* execute_tool("outlook_integration", **kw) is started as a task and runs
\* up to its first await that suspends
start_outlook(kw) ==
    /\ server = "simple"
    /\ "outlook_integration" \in Keys(tools)
    /\ BindError("OutlookIntegrationTool", kw) = ""
    /\ call_count["OutlookIntegrationTool"] + Len(tasks) < MaxTokenCalls
    /\ LET id == call_count["OutlookIntegrationTool"] + Len(tasks) + 1 IN
       tasks' = Append(tasks,
                       IF HasAccessToken(access_token)
                       THEN [id |-> id, kwargs |-> kw, phase |-> "graph",
                             token |-> access_token]
                       ELSE [id |-> id, kwargs |-> kw, phase |-> "token", token |-> None])
    /\ request' = [name |-> "outlook_integration", kwargs |-> kw, env |-> "ok"]
    /\ op' = "start_outlook"
    /\ UNCHANGED <<dashboard, server, tools, tool_schemas, registered_tools, call_handler,
                   telemetry, access_token, clock, result, task_logs>>

\* the tasks without the i-th
Without(seq, i) == [j \in 1..(Len(seq) - 1) |-> IF j < i THEN seq[j] ELSE seq[j + 1]]

\* the answer to the token request of the i-th task arrives: status 200
\* (env "ok") stores the token and execute goes on to its Graph request;
\* another status (env "token_denied") raises into the except of execute
token_response(i, env) ==
    /\ i \in 1..Len(tasks)
    /\ tasks[i].phase = "token"
    /\ LET task == tasks[i] IN
       IF env = "ok"
       THEN /\ access_token' = IssuedToken(task.id)
            /\ tasks' = [tasks EXCEPT ![i] = [task EXCEPT !.phase = "graph",
                                                           !.token = IssuedToken(task.id)]]
            /\ UNCHANGED <<telemetry, clock, result, task_logs>>
       ELSE LET r == CallExecute("OutlookIntegrationTool", task.kwargs, env, None)
                after == ApplyLogs(Telemetry("OutlookIntegrationTool"), r.logs, clock)
            IN /\ call_count' = [call_count EXCEPT !["OutlookIntegrationTool"] = after.call_count]
               /\ last_called' = [last_called EXCEPT !["OutlookIntegrationTool"] = after.last_called]
               /\ errors' = [errors EXCEPT !["OutlookIntegrationTool"] = after.errors]
               /\ clock' = clock + Len(r.logs)
               /\ result' = r.value
               /\ task_logs' = task_logs \o Logged(task.id, r.logs, clock)
               /\ tasks' = Without(tasks, i)
               /\ UNCHANGED access_token
    /\ request' = [name |-> "outlook_integration", kwargs |-> tasks[i].kwargs, env |-> env,
                   task |-> tasks[i].id]
    /\ op' = "token_response"
    /\ UNCHANGED <<dashboard, server, tools, tool_schemas, registered_tools, call_handler>>

\* the answer to the Graph request of the i-th task arrives (env "ok" or
\* "http_error"); the coroutine runs to its end
graph_response(i, env) ==
    /\ i \in 1..Len(tasks)
    /\ tasks[i].phase = "graph"
    /\ LET task == tasks[i]
           r == CallExecute("OutlookIntegrationTool", task.kwargs, env, task.token)
           after == ApplyLogs(Telemetry("OutlookIntegrationTool"), r.logs, clock)
       IN /\ call_count' = [call_count EXCEPT !["OutlookIntegrationTool"] = after.call_count]
          /\ last_called' = [last_called EXCEPT !["OutlookIntegrationTool"] = after.last_called]
          /\ errors' = [errors EXCEPT !["OutlookIntegrationTool"] = after.errors]
          /\ clock' = clock + Len(r.logs)
          /\ result' = r.value
          /\ task_logs' = task_logs \o Logged(task.id, r.logs, clock)
          /\ tasks' = Without(tasks, i)
    /\ request' = [name |-> "outlook_integration", kwargs |-> tasks[i].kwargs, env |-> env,
                   task |-> tasks[i].id]
    /\ op' = "graph_response"
    /\ UNCHANGED <<dashboard, server, tools, tool_schemas, registered_tools, call_handler, access_token>>

StartOutlook == \E kw \in TokenInputs : start_outlook(kw)
TokenResponse ==
    \E i \in 1..Len(tasks) : \E env \in {"ok", "token_denied"} : token_response(i, env)
GraphResponse ==
    \E i \in 1..Len(tasks) : \E env \in {"ok", "http_error"} : graph_response(i, env)

NextToken ==
    \/ register_all_tools
    \/ StartOutlook
    \/ TokenResponse
    \/ GraphResponse

InitToken == Init /\ server = "simple"

SpecToken == InitToken /\ [][NextToken]_vars

(***************************************************************************)
(* The dashboard process next to a server process: the test-tool requests  *)
(* of the dashboard and the invocations of the server, each on its own     *)
(* tool instances.                                                         *)
(***************************************************************************)
\* at most this many requests reach the dashboard and the server together
MaxRequests == 2

\* what test_tool_advanced answers when execute ended as r
TestResponse(tool_name, r) ==
    IF r.kind = "raise"
    THEN Failure("Tool execution error: " \o r.value.message)
    ELSE IF r.value.success
    THEN [success |-> TRUE,
          message |-> tool_name \o " working perfectly! Check logs for details."]
    ELSE Failure(r.value.error)

\* the log entry test_tool_advanced appends when execute ended as r
ResultLog(tool_name, r, now) ==
    [time |-> Strftime(now),
     message |-> IF r.kind = "raise"
                 THEN tool_name \o " crashed: Tool execution error: " \o r.value.message
                 ELSE IF r.value.success
                 THEN tool_name \o " executed successfully"
                 ELSE tool_name \o " failed: " \o r.value.error]

\* test_tool_advanced that looks the tool up before it counts the request
test_tool_advanced_ChecksFirst(tool_name, env) ==
    /\ IF tool_name \notin Keys(DashboardTools)
       THEN /\ result' = Failure("Tool '" \o tool_name \o "' not found")
            /\ request' = [name |-> tool_name, kwargs |-> NoKwargs, env |-> env]
            /\ UNCHANGED <<dashboard, clock, telemetry>>
       ELSE LET counted ==
                  [dashboard EXCEPT
                     !.server_stats.total_requests = @ + 1,
                     !.server_logs = Append(@, [time |-> Strftime(clock),
                                                message |-> "Testing " \o tool_name]),
                     !.tool_calls = Append(@, [tool |-> tool_name, time |-> clock])]
                tool == Lookup(DashboardTools, tool_name)
                kw == SampleKwargs(tool_name, clock)
                r == CallExecute(DashboardClass(tool), kw, env, None)
                after == ApplyLogs(Telemetry(tool), r.logs, clock + 1)
                done == clock + 1 + Len(r.logs)
            IN /\ call_count' = [call_count EXCEPT ![tool] = after.call_count]
               /\ last_called' = [last_called EXCEPT ![tool] = after.last_called]
               /\ errors' = [errors EXCEPT ![tool] = after.errors]
               /\ dashboard' = [counted EXCEPT
                                  !.server_logs = Append(@, ResultLog(tool_name, r, done))]
               /\ result' = TestResponse(tool_name, r)
               /\ request' = [name |-> tool_name, kwargs |-> kw, env |-> env]
               /\ clock' = done + 1
    /\ op' = "test_tool"
    /\ UNCHANGED <<tasks, task_logs, server, tools, tool_schemas, registered_tools,
                   call_handler, access_token>>

\* POST /test-tool/{tool_name}: every key of the dashboard's dict has its
\* branch, so the branch "Unknown tool" is never taken
test_tool_advanced(tool_name, env) ==
    /\ LET counted ==
              [dashboard EXCEPT
                 !.server_stats.total_requests = @ + 1,
                 !.server_logs = Append(@, [time |-> Strftime(clock),
                                            message |-> "Testing " \o tool_name]),
                 !.tool_calls = Append(@, [tool |-> tool_name, time |-> clock])]
       IN
       IF tool_name \notin Keys(DashboardTools)
       THEN /\ dashboard' = counted
            /\ result' = Failure("Tool '" \o tool_name \o "' not found")
            /\ request' = [name |-> tool_name, kwargs |-> NoKwargs, env |-> env]
            /\ clock' = clock + 1
            /\ UNCHANGED telemetry
       ELSE LET tool == Lookup(DashboardTools, tool_name)
                kw == SampleKwargs(tool_name, clock)
                r == CallExecute(DashboardClass(tool), kw, env, None)
                after == ApplyLogs(Telemetry(tool), r.logs, clock + 1)
                done == clock + 1 + Len(r.logs)
            IN /\ call_count' = [call_count EXCEPT ![tool] = after.call_count]
               /\ last_called' = [last_called EXCEPT ![tool] = after.last_called]
               /\ errors' = [errors EXCEPT ![tool] = after.errors]
               /\ dashboard' = [counted EXCEPT
                                  !.server_logs = Append(@, ResultLog(tool_name, r, done))]
               /\ result' = TestResponse(tool_name, r)
               /\ request' = [name |-> tool_name, kwargs |-> kw, env |-> env]
               /\ clock' = done + 1
    /\ op' = "test_tool"
    /\ UNCHANGED <<tasks, task_logs, server, tools, tool_schemas, registered_tools,
                   call_handler, access_token>>

\* GET /api/stats
api_stats ==
    /\ op = "test_tool"
    /\ result' = [type |-> "api_stats",
                  logs |-> Len(dashboard.server_logs),
                  tool_calls |-> Len(dashboard.tool_calls),
                  total_requests |-> dashboard.server_stats.total_requests,
                  available_tools |-> KeyList(DashboardTools)]
    /\ op' = "api_stats"
    /\ UNCHANGED <<dashboard, tasks, task_logs, server, tools, tool_schemas,
                   registered_tools, call_handler, telemetry, access_token, clock, request>>

\* the requests of a run
Requests == Len(dashboard.tool_calls) + SumCalls(ToolClasses)

\* the names, and the world, of the test-tool requests
TestNames == Keys(DashboardTools) \cup {"slack_real"} \cup UnknownNames
TestEnvs(tool_name) ==
    CASE tool_name = "file_reader" -> {"ok", "unreadable"}
      [] tool_name = "file_writer" -> {"ok", "unwritable"}
      [] OTHER -> {"ok"}

TestTool ==
    /\ Requests < MaxRequests
    /\ \E tool_name \in TestNames : \E env \in TestEnvs(tool_name) :
          test_tool_advanced(tool_name, env)

\* the server is invoked with the parameters the dashboard uses
ExecuteSample ==
    /\ Requests < MaxRequests
    /\ \E name \in Keys(DashboardTools) : execute_tool(name, SampleKwargs(name, clock), "ok")

HandleSample ==
    /\ Requests < MaxRequests
    /\ \/ \E name \in Keys(DashboardTools) :
             handle_tool_call(name, SampleKwargs(name, clock), "ok")
       \/ handle_tool_call("slack_real", [operation |-> "read_messages"], "ok")

InitDashboard ==
    /\ server \in {"simple", "fixed"}
    /\ tools = <<>>
    /\ tool_schemas = <<>>
    /\ registered_tools = <<>>
    /\ call_handler = <<>>
    /\ call_count = [c \in ToolClasses \cup DashboardInstances |-> 0]
    /\ last_called = [c \in ToolClasses \cup DashboardInstances |-> None]
    /\ errors = [c \in ToolClasses \cup DashboardInstances |-> <<>>]
    /\ access_token = None
    /\ clock = 1
    /\ op = "init"
    /\ request = NoRequest
    /\ result = NoResult
    /\ tasks = <<>>
    /\ task_logs = <<>>
    /\ dashboard = DashboardStart

NextDashboard ==
    \/ register_all_tools
    \/ fixed_register_all_tools
    \/ TestTool
    \/ api_stats
    \/ ExecuteSample
    \/ HandleSample
    \/ take_result

SpecDashboard == InitDashboard /\ [][NextDashboard]_vars

(***************************************************************************)
(* Vocabulary of the properties.                                           *)
(***************************************************************************)
\* the step is one call of SimpleToolRegistry.execute_tool
SimpleCall == op # "execute_tool" /\ op' = "execute_tool"
\* the state right after a call of a dispatcher
AfterSimpleCall == op = "execute_tool"
AfterFixedCall == op = "handle_tool_call"

IsFailure(r) == "success" \in DOMAIN r /\ r.success = FALSE /\ "error" \in DOMAIN r
IsSuccess(r) == "success" \in DOMAIN r /\ r.success = TRUE

\* kw satisfies the declared schema of cls: every required parameter is
\* present, every enum-typed one has a declared value, every array-typed one
\* is a list
ValidArgs(cls, kw) ==
    /\ Schema(cls).required \subseteq DOMAIN kw
    /\ \A p \in DOMAIN Schema(cls).enum \cap DOMAIN kw : kw[p] \in Schema(cls).enum[p]
    /\ \A p \in SchemaArrays(cls) \cap DOMAIN kw : kw[p].type = "list"

(***************************************************************************)
(* C1.  Telemetry is recorded at most once per invocation: no step raises  *)
(* the call_count of a capability by more than 1.                          *)
(* Violated: CalendarTool._send_invite runs log_call(True) and only then   *)
(* takes len(attendees); with attendees = None the TypeError reaches the   *)
(* except branch of execute, which runs log_call(False, ...) as well.      *)
(***************************************************************************)
C1_AtMostOneLogPerInvocation ==
    [][\A c \in ToolClasses : call_count'[c] <= call_count[c] + 1]_vars

(***************************************************************************)
(* C2.  Every invocation of a registered capability raises its call_count. *)
(* Violated: the "Unknown operation" branches, the "File not found" branch *)
(* of SlackRealTool._upload_file and the TypeError that execute_tool       *)
(* catches all return without a log_call.                                  *)
(***************************************************************************)
C2_EveryInvocationCounted ==
    [][(SimpleCall /\ request'.name \in Keys(tools))
         => call_count'[Lookup(tools, request'.name)]
              > call_count[Lookup(tools, request'.name)]]_vars

(***************************************************************************)
(* C3.  execute_tool with a name that is not a key of the registry returns *)
(* a Failure and leaves the registry and every capability's telemetry      *)
(* unchanged.                                                              *)
(***************************************************************************)
C3_UnknownNameTouchesNothing ==
    [][(SimpleCall /\ request'.name \notin Keys(tools))
         => /\ IsFailure(result')
            /\ tools' = tools
            /\ tool_schemas' = tool_schemas
            /\ call_count' = call_count
            /\ last_called' = last_called
            /\ errors' = errors]_vars

\* an unknown name was invoked in a registry whose tools have been used
C3_Witness ==
    /\ AfterSimpleCall
    /\ tools # <<>>
    /\ request.name \notin Keys(tools)
    /\ \E c \in ToolClasses : call_count[c] > 0 /\ errors[c] # <<>>

C5_StoredErrorsBounded ==
    \A c \in ToolClasses : Len(errors[c]) <= RecentErrors

(***************************************************************************)
(* C6.  In every snapshot of get_stats, error_count is the length of the   *)
(* recent_errors of the same snapshot.                                     *)
(* Violated: error_count is len(self.errors), recent_errors is             *)
(* self.errors[-3:].                                                       *)
(***************************************************************************)
C6_ErrorCountIsRecentLength ==
    \A c \in ToolClasses : get_stats(c).error_count = Len(get_stats(c).recent_errors)

(***************************************************************************)
(* C7.  One invocation of the email, slack, calendar or powerpoint         *)
(* capability with arguments that satisfy its schema (any declared enum    *)
(* operation) returns Success and raises its call_count by exactly 1.      *)
(* Violated: operations the schemas declare have no method behind them     *)
(* (_search_emails, _get_unread_emails, _get_channels, _search_messages,   *)
(* _check_availability, _list_events, _save_presentation) or no branch     *)
(* ("add_content").                                                        *)
(***************************************************************************)
EnumOperationTools ==
    {"EmailIntegrationTool", "SlackIntegrationTool", "CalendarTool", "PowerPointTool"}

C7_ValidArgsSucceed ==
    [][(/\ SimpleCall
        /\ request'.name \in Keys(tools)
        /\ Lookup(tools, request'.name) \in EnumOperationTools
        /\ ValidArgs(Lookup(tools, request'.name), request'.kwargs))
         => /\ IsSuccess(result')
            /\ call_count'[Lookup(tools, request'.name)]
                 = call_count[Lookup(tools, request'.name)] + 1]_vars

(***************************************************************************)
(* C8.  An invocation of a registered capability that omits a required     *)
(* parameter returns a Failure, raises the capability's call_count by 1    *)
(* and appends one entry to its error history.                             *)
(* Violated: the TypeError of the call is caught by execute_tool, which    *)
(* returns the Failure without any log_call.                               *)
(***************************************************************************)
C8_MissingRequiredIsRecorded ==
    [][(/\ SimpleCall
        /\ request'.name \in Keys(tools)
        /\ ~(Schema(Lookup(tools, request'.name)).required \subseteq DOMAIN request'.kwargs))
         => LET c == Lookup(tools, request'.name) IN
            /\ IsFailure(result')
            /\ call_count'[c] = call_count[c] + 1
            /\ Len(errors'[c]) = Len(errors[c]) + 1]_vars

(***************************************************************************)
(* C9.  An invocation whose "operation" (or "format") argument is outside  *)
(* the values the capability handles returns a Failure.                    *)
(* Violated: JSONProcessorTool.execute puts "Unknown operation" into the   *)
(* result of a Success.                                                    *)
(***************************************************************************)
C9_UnknownOperationFails ==
    (/\ AfterSimpleCall
     /\ request.name \in Keys(tools)
     /\ BindError(Lookup(tools, request.name), request.kwargs) = ""
     /\ \E p \in {"operation", "format"} \cap DOMAIN request.kwargs
                                          \cap DOMAIN Schema(Lookup(tools, request.name)).enum :
           request.kwargs[p] \notin Schema(Lookup(tools, request.name)).enum[p])
        => IsFailure(result)

(***************************************************************************)
(* C10.  Every call of a dispatcher, of either variant, returns a          *)
(* well-formed Result: a record with a boolean success that carries a      *)
(* string error when success is false; no exception escapes.               *)
(* Violated: the call handler of server_fixed has no try; the TypeError of *)
(* a call with a missing argument leaves it, and what it returns is a      *)
(* TextContent, "Unknown tool: N" for every name but its own tool's.       *)
(***************************************************************************)
WellFormed(r) ==
    /\ "success" \in DOMAIN r
    /\ r.success \in BOOLEAN
    /\ ~r.success => "error" \in DOMAIN r

C10_WellFormedResult ==
    (AfterSimpleCall \/ AfterFixedCall) => WellFormed(result)

(***************************************************************************)
(* C11.  When an invocation of a registered capability returns a Failure,  *)
(* the invocation appended one entry to the capability's errors and the    *)
(* entry's message is the message of the Failure; when it returns Success, *)
(* no entry was appended.                                                  *)
(* Violated: CalculatorTool.execute logs "Invalid characters in            *)
(* expression" and returns "Expression contains invalid characters"; the   *)
(* Failures that are returned without log_call append nothing.             *)
(***************************************************************************)
C11_FailureIsRecordedWithItsMessage ==
    [][(SimpleCall /\ request'.name \in Keys(tools))
         => LET c == Lookup(tools, request'.name)
                e == errors'[c]
            IN /\ IsFailure(result')
                    => /\ Len(e) = Len(errors[c]) + 1
                       /\ e[Len(e)].error = result'.error
               /\ IsSuccess(result') => e = errors[c]]_vars

(***************************************************************************)
(* C12.  After k invocations of one registered capability, f of which      *)
(* returned Failure, get_stats reports call_count = k and error_count = f, *)
(* and f recent_errors when f <= 3.  Stated as the step that carries it    *)
(* from k to k + 1 invocations: every invocation adds 1 to the call_count  *)
(* of the snapshot, adds 1 to its error_count exactly when it returned a   *)
(* Failure, and the snapshot lists min(error_count, 3) recent_errors.      *)
(* Violated: an invocation that returns without log_call leaves both       *)
(* counts as they were.                                                    *)
(***************************************************************************)
C12_StatsCountInvocations ==
    [][\A c \in ToolClasses :
         (SimpleCall /\ request'.name \in Keys(tools) /\ c = Lookup(tools, request'.name))
           => LET before == get_stats(c)
                  after == get_stats(c)'
              IN /\ after.call_count = before.call_count + 1
                 /\ after.error_count
                      = before.error_count + (IF IsFailure(result') THEN 1 ELSE 0)
                 /\ after.error_count <= RecentErrors
                      => Len(after.recent_errors) = after.error_count]_vars

(***************************************************************************)
(* C13.  In every reachable state the call_count of every capability is at *)
(* least the number of its recorded errors.                                *)
(***************************************************************************)
C13_CallCountCoversErrors ==
    \A c \in ToolClasses : call_count[c] >= Len(errors[c])

\* a capability that failed twice and succeeded once
C13_Witness ==
    \E c \in ToolClasses : Len(errors[c]) = 2 /\ call_count[c] = 3

(***************************************************************************)
(* C17.  An invocation whose arguments hold a key the schema does not      *)
(* declare, and are valid otherwise, returns what the invocation without   *)
(* that key returns.                                                       *)
(* Violated: CalculatorTool.execute and FileWriterTool.execute take no     *)
(* **kwargs; the undeclared key is a TypeError of the call, which          *)
(* execute_tool turns into a Failure.                                      *)
(***************************************************************************)
\* kw without the keys the schema of cls does not declare
DeclaredOnly(cls, kw) == [k \in DOMAIN kw \cap Schema(cls).properties |-> kw[k]]

C17_UnknownKeyTolerated ==
    [][\A c \in ToolClasses :
         (/\ SimpleCall
          /\ request'.name \in Keys(tools)
          /\ c = Lookup(tools, request'.name)
          /\ ~(DOMAIN request'.kwargs \subseteq Schema(c).properties)
          /\ ValidArgs(c, DeclaredOnly(c, request'.kwargs)))
           => result' = ExecuteToolResult(tools, request'.name,
                                          DeclaredOnly(c, request'.kwargs),
                                          request'.env, access_token)]_vars

(***************************************************************************)
(* C20.  An invocation of capability A changes the telemetry of A only:    *)
(* call_count, last_called and errors of every other capability are what   *)
(* they were, in both dispatchers.                                         *)
(***************************************************************************)
FixedCall == op # "handle_tool_call" /\ op' = "handle_tool_call"

C20_OnlyOwnTelemetryChanges ==
    [][\A c \in ToolClasses :
         (\/ SimpleCall /\ request'.name \in Keys(tools) /\ c # Lookup(tools, request'.name)
          \/ FixedCall /\ c # call_handler[1])
           => /\ call_count'[c] = call_count[c]
              /\ last_called'[c] = last_called[c]
              /\ errors'[c] = errors[c]]_vars

\* a failed invocation of one capability, after another capability was invoked
C20_Witness ==
    /\ AfterSimpleCall
    /\ request.name \in Keys(tools)
    /\ IsFailure(result)
    /\ errors[Lookup(tools, request.name)] # <<>>
    /\ \E c \in ToolClasses : c # Lookup(tools, request.name) /\ call_count[c] > 0

(***************************************************************************)
(* The order of the calls inside one execute, as the source writes them.   *)
(* "bind" is the binding of the keyword arguments to the signature.        *)
(***************************************************************************)
\* one log_call step for every log a path made
StepsOfLogs(logs) == [i \in 1..Len(logs) |-> "log_call"]

Steps(cls, kw, env) ==
    LET operation == Get(kw, "operation", "")
        logs == StepsOfLogs(CallExecute(cls, kw, env, None).logs)
    IN
    IF BindError(cls, kw) # "" THEN <<"bind", "return">>
    ELSE CASE cls = "FileReaderTool" ->
                CASE env = "absent" -> <<"bind", "os.path.exists", "log_call", "return">>
                  [] env = "unreadable" -> <<"bind", "os.path.exists", "open", "log_call", "return">>
                  [] env = "vanished" -> <<"bind", "os.path.exists", "open", "log_call",
                                           "os.path.getsize", "log_call", "return">>
                  [] OTHER -> <<"bind", "os.path.exists", "open", "log_call",
                                "os.path.getsize", "return">>
           [] cls = "FileWriterTool" -> <<"bind", "open">> \o logs \o <<"return">>
           [] cls = "CalculatorTool" ->
                IF \A i \in 1..Len(kw.expression) : kw.expression[i] \in AllowedChars
                THEN <<"bind", "allowed_chars", "eval">> \o logs \o <<"return">>
                ELSE <<"bind", "allowed_chars">> \o logs \o <<"return">>
           [] cls = "JSONProcessorTool" -> <<"bind", "json.loads">> \o logs \o <<"return">>
           [] cls = "MeetingSummarizerTool" -> <<"bind", "summary">> \o logs \o <<"return">>
           [] cls \in {"EmailIntegrationTool", "SlackIntegrationTool"} ->
                <<"bind">> \o logs \o <<"return">>
           [] cls = "CalendarTool" ->
                CASE operation = "create_meeting" ->
                        <<"bind", "log_call", "meeting_data", "return">>
                  [] operation = "send_invite" ->
                        <<"bind", "log_call", "len">> \o Tail(logs) \o <<"return">>
                  [] OTHER -> <<"bind">> \o logs \o <<"return">>
           [] cls = "PowerPointTool" ->
                CASE operation = "create_presentation" ->
                        <<"bind", "log_call", "presentation_id", "return">>
                  [] operation = "add_slide" ->
                        <<"bind", "log_call", "len">> \o Tail(logs) \o <<"return">>
                  [] OTHER -> <<"bind">> \o logs \o <<"return">>
           [] cls = "SlackRealTool" ->
                IF operation = "upload_file"
                THEN <<"bind", "os.path.exists">>
                     \o (IF logs = <<>> THEN <<>> ELSE <<"httpx">>) \o logs \o <<"return">>
                ELSE (IF logs = <<>> THEN <<"bind">> ELSE <<"bind", "httpx">>)
                     \o logs \o <<"return">>
           [] cls = "OutlookIntegrationTool" ->
                <<"bind", "_get_access_token">> \o logs \o <<"return">>

\* what a call is: the validation of the arguments, the telemetry update,
\* the return of the result, or a part of the domain operation
StepKind(step) ==
    CASE step \in {"bind", "allowed_chars"} -> "validation"
      [] step = "log_call" -> "telemetry"
      [] step = "return" -> "return"
      [] OTHER -> "domain"

(***************************************************************************)
(* C19.  In every invocation no part of the domain operation runs before   *)
(* a validation of the arguments, no telemetry update is made before a     *)
(* part of the domain operation, and the result is returned after the      *)
(* telemetry update.                                                       *)
(* Violated: FileReaderTool.execute calls log_call(True) and then          *)
(* os.path.getsize; CalendarTool._create_meeting calls log_call(True) and  *)
(* then builds the meeting.                                                *)
(***************************************************************************)
StepRank(step) ==
    CASE StepKind(step) = "validation" -> 1
      [] StepKind(step) = "domain" -> 2
      [] StepKind(step) = "telemetry" -> 3
      [] StepKind(step) = "return" -> 4

C19_StepsOrdered ==
    (AfterSimpleCall /\ request.name \in Keys(tools))
        => LET steps == Steps(Lookup(tools, request.name), request.kwargs, request.env) IN
           \A i, j \in 1..Len(steps) : i < j => StepRank(steps[i]) <= StepRank(steps[j])

(***************************************************************************)
(* C14.  After a discovery in which some modules fail to import and some   *)
(* classes fail to instantiate, the registry holds the capability of every *)
(* class that did not fail and whose module did not fail, in each of the   *)
(* three servers.                                                          *)
(* Violated: in server.py a class that fails to instantiate raises inside  *)
(* the module's register_tools, before any of its decorators ran; none of  *)
(* the other classes of that module is registered.                         *)
(***************************************************************************)
\* the module that defines cls
ModuleOf(cls) ==
    CHOOSE m \in {Modules[i] : i \in 1..Len(Modules)} :
        \E j \in 1..Len(ModuleClasses(m)) : ModuleClasses(m)[j] = cls

\* the registry of the server that runs
Registry == IF server = "simple" THEN tools ELSE registered_tools

C14_FailingProviderIsSkipped ==
    (op = "register_all_tools" /\ request.name = "register_all_tools")
        => Keys(Registry)
             = {ToolName(c) : c \in {x \in ToolClasses :
                                        /\ ModuleOf(x) \notin request.env.failedModules
                                        /\ x \notin request.env.failedClasses}}

(***************************************************************************)
(* C15.  register_tool on an instance b whose name is already registered   *)
(* makes the lookup of the name return b and, in the simple registry, the  *)
(* schema listed for the name b's; the registry's keys stay unique and     *)
(* their number did not grow.                                              *)
(***************************************************************************)
C15_LastRegisteredWins ==
    [][op' = "register_tool"
         => LET b == request'.kwargs.tool_instance
                n == NameOf(b)
            IN /\ Lookup(Registry', n) = b
               /\ Cardinality(Keys(Registry')) = Len(Registry')
               /\ n \in Keys(Registry) => Len(Registry') = Len(Registry)
               /\ server = "simple"
                    => /\ Lookup(tool_schemas', n) = Schema(ClassOf(b))
                       /\ KeyList(tool_schemas') = KeyList(tools')]_vars

\* the renamed SlackRealTool took the place of the SlackIntegrationTool and
\* the listing shows its schema
C15_Witness ==
    /\ server = "simple"
    /\ op = "list_tools"
    /\ request.name = "register_tool"
    /\ request.kwargs.tool_instance = RenamedSlackReal
    /\ Len(tools) = Cardinality(ToolClasses)
    /\ Lookup(tools, "slack_integration") = RenamedSlackReal
    /\ \E i \in 1..Len(result.items) :
          /\ result.items[i].name = "slack_integration"
          /\ result.items[i].schema = Schema("SlackRealTool")

(***************************************************************************)
(* C16.  Once discovery has filled the registry, no invocation, listing or *)
(* get_stats changes the name-to-capability mapping, the schema mapping,   *)
(* or the call handler.                                                    *)
(***************************************************************************)
C16_RegistryReadOnlyAfterDiscovery ==
    [][(tools # <<>> \/ registered_tools # <<>>)
         => /\ tools' = tools
            /\ tool_schemas' = tool_schemas
            /\ registered_tools' = registered_tools
            /\ call_handler' = call_handler]_vars

\* a listing taken after the capability was invoked and had failed
C16_Witness ==
    /\ op = "list_tools"
    /\ server = "simple"
    /\ Len(result.items) = Cardinality(ToolClasses)
    /\ \E c \in ToolClasses : call_count[c] > 1 /\ errors[c] # <<>>

(***************************************************************************)
(* C18.  Under every interleaving of concurrent invocations of one         *)
(* capability, once all of them have finished, call_count is the number of *)
(* log_call calls that ran and the errors hold one entry for every failed  *)
(* log, in the order the logs ran.                                         *)
(***************************************************************************)
\* the entries the failed logs of task_logs leave in errors
FailedLogs ==
    LET failed == SelectSeq(task_logs, LAMBDA l : ~l.success) IN
    [i \in 1..Len(failed) |-> [time |-> failed[i].time, error |-> failed[i].error]]

C18_NoTelemetryUpdateLost ==
    tasks = <<>>
        => /\ call_count["SlackRealTool"] = Len(task_logs)
           /\ errors["SlackRealTool"] = FailedLogs

\* three invocations were in flight together; the one started last finished
\* first, two of them failed
C18_Witness ==
    /\ tasks = <<>>
    /\ Len(task_logs) = 3
    /\ task_logs[1].task = 3
    /\ task_logs[3].task = 1
    /\ Len(errors["SlackRealTool"]) = 2

(***************************************************************************)
(* C22.  get_stats is read-only: a call leaves call_count, last_called and *)
(* errors of every capability as they were, the snapshot it returns is the *)
(* one of the unchanged fields, and so a second call with no invocation in *)
(* between returns the same snapshot.                                      *)
(***************************************************************************)
C22_GetStatsReadOnly ==
    [][\A c \in ToolClasses :
         (op' = "get_stats" /\ request'.name = ToolName(c))
           => /\ call_count' = call_count
              /\ last_called' = last_called
              /\ errors' = errors
              /\ result'.stats = get_stats(c)
              /\ get_stats(c)' = get_stats(c)]_vars

\* a snapshot of a capability that holds more errors than a snapshot lists
C22_Witness ==
    /\ op = "get_stats"
    /\ result.stats.error_count > RecentErrors
    /\ Len(result.stats.recent_errors) = RecentErrors
    /\ Len(errors[ClassOfName(request.name)]) = result.stats.error_count

(***************************************************************************)
(* C23.  For a registered name whose execute returns, the dispatcher       *)
(* returns exactly the value execute returned, in both dispatchers.        *)
(* Violated: the call handler of server_fixed returns                      *)
(* [TextContent(type="text", text=str(result))], the text of the result.   *)
(***************************************************************************)
C23_ResultReturnedUnchanged ==
    [][\A c \in ToolClasses :
         (/\ \/ SimpleCall /\ request'.name \in Keys(tools)
                           /\ c = Lookup(tools, request'.name)
             \/ FixedCall /\ request'.name = ToolName(call_handler[1])
                          /\ c = call_handler[1]
          /\ CallExecute(c, request'.kwargs, request'.env, access_token).kind = "return")
           => result' = CallExecute(c, request'.kwargs, request'.env, access_token).value]_vars

(***************************************************************************)
(* C25.  For every capability last_called is None exactly when call_count  *)
(* is 0; a step that updates the telemetry of a capability leaves in       *)
(* last_called the time of the most recent log_call, and every error entry *)
(* that the last log_call of the step appended carries that time.          *)
(***************************************************************************)
C25_LastCalledIsLastUpdate ==
    /\ [](\A c \in ToolClasses : (last_called[c] = None) <=> (call_count[c] = 0))
    /\ [][\A c \in ToolClasses :
            call_count'[c] # call_count[c]
              => /\ last_called'[c] = clock' - 1
                 /\ last_called'[c] > last_called[c]
                 /\ \A i \in (Len(errors[c]) + 1)..Len(errors'[c]) :
                       errors'[c][i].time = last_called'[c]]_vars

\* a capability whose last call failed after an earlier success
C25_Witness ==
    \E c \in ToolClasses :
        /\ call_count[c] = 3
        /\ Len(errors[c]) = 1
        /\ errors[c][1].time = last_called[c]
        /\ last_called[c] = 3

(***************************************************************************)
(* C27.  In server_fixed every name of registered_tools is invocable       *)
(* through the call handler: a call that names a registered tool is not    *)
(* answered "Unknown tool".                                                *)
(* Violated: every register_tool stores a new call handler in the server's *)
(* one slot; the handler that remains knows the tool registered last.      *)
(***************************************************************************)
C27_EveryRegisteredNameInvocable ==
    (AfterFixedCall /\ request.name \in Keys(registered_tools))
        => result # TextContent("Unknown tool: " \o request.name)

(***************************************************************************)
(* C26.  After the registrations list_tools of SimpleToolRegistry returns  *)
(* one descriptor per registered name, in the order of the registry; the   *)
(* description and the schema of a descriptor are those of the instance    *)
(* held under its name, the tool mapping and the schema mapping have the   *)
(* same keys, and a second call with no registration in between returns    *)
(* the same sequence.                                                      *)
(***************************************************************************)
C26_OneDescriptorPerName ==
    /\ []((server = "simple" /\ op = "list_tools")
            => /\ Keys(tools) = Keys(tool_schemas)
               /\ Len(result.items) = Cardinality(Keys(tools))
               /\ \A i \in 1..Len(result.items) :
                     LET d == result.items[i] IN
                     /\ DOMAIN d = {"name", "description", "schema"}
                     /\ d.name = tools[i].key
                     /\ \A j \in 1..Len(result.items) :
                           result.items[j].name = d.name => j = i
                     /\ d.schema = Schema(ClassOf(Lookup(tools, d.name)))
                     /\ d.description = Description(ClassOf(Lookup(tools, d.name))))
    /\ [][(server = "simple" /\ op = "list_tools" /\ op' = "list_tools")
            => result' = result]_vars

\* the listing after a discovery that lost a class and a registration that
\* replaced the instance held under a name
C26_Witness ==
    /\ server = "simple"
    /\ op = "list_tools"
    /\ request.name = "register_tool"
    /\ Len(result.items) = Cardinality(ToolClasses) - 1
    /\ "calculator" \notin Keys(tools)
    /\ \E i \in 1..Len(result.items) :
          /\ result.items[i].name = "slack_integration"
          /\ result.items[i].description = Description("SlackRealTool")
          /\ result.items[Len(result.items)].name = "slack_real"

\* how many times x occurs in the sequence s
Occurrences(s, x) == Cardinality({i \in 1..Len(s) : s[i] = x})

(***************************************************************************)
(* C28.  A discovery that meets no failure leaves the same set of names in *)
(* the registry whether it scans the classes of the handler modules        *)
(* (simple_server, server_fixed) or calls their register_tools (server.py);*)
(* the scan instantiates every class of a handler module that inherits     *)
(* from MCPTool exactly once and never MCPTool itself.                     *)
(***************************************************************************)
C28_DiscoveriesAgree ==
    (/\ op = "register_all_tools"
     /\ request = Discovery({}, {}))
        => /\ server \in {"simple", "fixed"}
                => Keys(Registry)
                     = Keys(DecorateEach(<<>>, ExtendedDiscovered(ExtendedModules, {}, {})))
           /\ server = "extended"
                => Keys(Registry)
                     = Keys(RegisterEach(<<<<>>, <<>>>>, Discovered(Modules, {}, {}))[1])
           /\ server \in {"simple", "fixed"}
                => LET scanned == Discovered(Modules, {}, {}) IN
                   /\ Len(Registry) = Len(scanned)
                   /\ \A i \in 1..Len(Modules) :
                        \A j \in 1..Len(ModuleTypes(Modules[i])) :
                           LET t == ModuleTypes(Modules[i])[j] IN
                           Occurrences(scanned, t) = IF InheritsMCPTool(t) THEN 1 ELSE 0

\* the registry of server.py after a discovery without failures
C28_Witness ==
    /\ op = "register_all_tools"
    /\ request = Discovery({}, {})
    /\ server = "extended"
    /\ Len(registered_tools) = Cardinality(ToolClasses)
    /\ registered_tools[1].key = "calculator"
    /\ registered_tools[5].key = "meeting_summarizer"

(***************************************************************************)
(* C24.  An invocation of the calculator with an expression that holds a   *)
(* character outside allowed_chars returns the invalid-characters Failure, *)
(* the expression is not evaluated (the one log_call of the invocation is  *)
(* the one of the character check), call_count grows by 1 and error_count  *)
(* grows by 1.                                                             *)
(***************************************************************************)
C24_InvalidCharactersRejected ==
    [][(/\ SimpleCall
        /\ request'.name = "calculator"
        /\ "calculator" \in Keys(tools)
        /\ DOMAIN request'.kwargs = {"expression"}
        /\ \E i \in 1..Len(request'.kwargs.expression) :
              request'.kwargs.expression[i] \notin AllowedChars)
          => /\ result' = Failure("Expression contains invalid characters")
             /\ call_count'["CalculatorTool"] = call_count["CalculatorTool"] + 1
             /\ Len(errors'["CalculatorTool"]) = Len(errors["CalculatorTool"]) + 1
             /\ errors'["CalculatorTool"][Len(errors'["CalculatorTool"])].error
                  = "Invalid characters in expression"
             /\ \A c \in ToolClasses \ {"CalculatorTool"} :
                   call_count'[c] = call_count[c] /\ errors'[c] = errors[c]]_vars

\* a rejected expression whose other characters would evaluate, after an
\* expression that was evaluated
C24_Witness ==
    /\ op = "execute_tool"
    /\ request.name = "calculator"
    /\ request.kwargs.expression = <<"1", "+", "x">>
    /\ result = Failure("Expression contains invalid characters")
    /\ call_count["CalculatorTool"] = 2
    /\ Len(errors["CalculatorTool"]) = 1

(***************************************************************************)
(* C30.  An invocation of the Outlook capability that starts when a token  *)
(* is stored takes the stored token and issues no token request, and no    *)
(* step but the answer to a token request that was issued while no token   *)
(* was stored changes the stored token; invocations that start before any  *)
(* token is stored each issue a request, and after each answer the stored  *)
(* token is the one of that answer, so the one written last remains.       *)
(***************************************************************************)
C30_StoredTokenReused ==
    /\ [][(op' = "start_outlook" /\ Len(tasks') = Len(tasks) + 1)
            => LET task == tasks'[Len(tasks')] IN
               /\ access_token' = access_token
               /\ access_token # None => task.phase = "graph" /\ task.token = access_token
               /\ access_token = None => task.phase = "token"]_vars
    /\ [][access_token' # access_token
            => /\ op' = "token_response"
               /\ request'.env = "ok"
               /\ \E i \in 1..Len(tasks) :
                     /\ tasks[i].id = request'.task
                     /\ tasks[i].phase = "token"
                     /\ access_token' = IssuedToken(tasks[i].id)
                     /\ tasks'[i].token = access_token']_vars
    /\ []((\A i \in 1..Len(tasks) : tasks[i].phase # "token")
            => \A i \in 1..Len(tasks) : access_token # None /\ tasks[i].token # None)

\* two invocations that each requested a token, the stored token being the
\* one written last, and a third invocation that reuses it
C30_Witness ==
    /\ Len(tasks) = 3
    /\ \A i \in 1..3 : tasks[i].phase = "graph"
    /\ tasks[1].token = IssuedToken(tasks[1].id)
    /\ tasks[2].token = IssuedToken(tasks[2].id)
    /\ tasks[3].token = tasks[1].token
    /\ access_token = tasks[1].token

\* C30 as stated: a stored token is never replaced
C30_TokenNeverReplaced ==
    [][access_token # None => access_token' = access_token]_vars

\* the instances a dict holds
Held(registry) == {registry[i].value : i \in 1..Len(registry)}

C29_RequestsCounted ==
    /\ [](dashboard.server_stats.total_requests = Len(dashboard.tool_calls))
    /\ [](op = "api_stats" => result.total_requests = result.tool_calls)
    /\ [][op' = "test_tool"
            => /\ dashboard'.server_stats.total_requests
                    = dashboard.server_stats.total_requests + 1
               /\ Len(dashboard'.tool_calls) = Len(dashboard.tool_calls) + 1
               /\ dashboard'.tool_calls[Len(dashboard'.tool_calls)].tool = request'.name
               /\ \E i \in (Len(dashboard.server_logs) + 1)..Len(dashboard'.server_logs) :
                     dashboard'.server_logs[i].message = "Testing " \o request'.name
               /\ request'.name \notin Keys(DashboardTools)
                    => /\ IsFailure(result')
                       /\ call_count' = call_count
                       /\ last_called' = last_called
                       /\ errors' = errors]_vars

\* a request for a name the dashboard does not hold, after a request that
\* ran a tool
C29_Witness ==
    /\ op = "test_tool"
    /\ request.name = "slack_real"
    /\ result = Failure("Tool 'slack_real' not found")
    /\ dashboard.server_stats.total_requests = 2
    /\ Len(dashboard.tool_calls) = 2
    /\ dashboard.tool_calls[1].tool = "file_reader"
    /\ Len(errors[Lookup(DashboardTools, "file_reader")]) = 1
====
